---- MODULE Spec2Model ----
(***************************************************************************)
(* Model of the Domice dormitory backend (Express handlers over a hosted   *)
(* relational store).  The handlers are those of the latest snapshot,      *)
(* src/unnamed/part_001 lines 1106-2792, with the date helpers of          *)
(* src/unnamed/part_000.                                                   *)
(*                                                                         *)
(* The store is external: a table is a set of rows, a serial column is a   *)
(* counter, and every store call may fail (the `error` the client hands    *)
(* back), which is an input of the action that makes the call.             *)
(***************************************************************************)
EXTENDS Integers, Sequences, FiniteSets, TLC

VARIABLES
    now,            \* server clock, in whole days (the UTC calendar date)
    tz,             \* minutes the server's local time is ahead of UTC
    qr,             \* the QR code issued last (what the staff screen shows)
    profiles,       \* table profiles: set of rows [id, role]
    stu_details,    \* table stu_details: set of rows [id, plus_score, minus_score]
    jar,            \* the access_token cookie the browser holds
    minted,         \* the claim set generateToken was given for that cookie
    last,           \* the last request served and its response
    notices,        \* table notices
    posts,          \* table posts
    inquires,       \* table inquires
    leave_requests, \* table leave_requests
    merit_logs,     \* table merit_logs
    stay_status,    \* table stay_status
    room_checkins,  \* table room_checkins
    serial,         \* next serial id of each table
    mreq,           \* POST /api/admin/meritlogs requests in flight
    sreq            \* POST /api/stay requests in flight

vars == <<now, tz, qr, profiles, stu_details, jar, minted, last, notices, posts, inquires,
          leave_requests, merit_logs, stay_status, room_checkins, serial,
          mreq, sreq>>

tables == <<profiles, stu_details, notices, posts, inquires, leave_requests,
            merit_logs, stay_status, room_checkins>>

\* ---------------------------------------------------------------- bounds

\* the clock stops at this day
MaxDay == 30
\* profiles rows sign-up creates
MaxProfiles == 1
\* rows inserted over the tables of the staff routes
MaxStaffRows == 1
\* awards of the merit runs
MaxAwards == 2
\* posts and inquiries written in the board runs
MaxBoardRows == 1
\* submissions of the stay runs that reach the store
MaxStay == 2
\* last day of the stay runs
MaxStayDay == 2
\* room_checkins rows inserted
MaxScans == 2
\* the last day of the check-in clock
MaxScanDay == 1
\* rows a table holds when the lists are read
MaxListRows == 2
\* last day of the runs over a week of stay submissions
MaxWeekDay == 7

\* ------------------------------------------------------------ JavaScript

Undef == "undefined"
Null == "null"

\* obj.k : a missing property reads as undefined
Get(obj, k) == IF k \in DOMAIN obj THEN obj[k] ELSE Undef

\* !v for the string- and null-valued inputs of the model
Falsy(v) == v \in {Undef, Null, ""}

\* JSON.stringify of an object drops the properties whose value is undefined
JsonObject(obj) == [k \in {x \in DOMAIN obj : obj[x] # Undef} |-> obj[k]]

\* ------------------------------------------------------- response envelope

\* sendOk / sendErr: the envelope with its status.  The data of a success
\* envelope is kept apart (the `out` of the request served); the messages
\* of the error envelopes are given in English.
sendOk(status) == [status |-> status, code |-> "", message |-> "", success |-> TRUE]

sendErr(code, message, status) ==
    [status |-> status, code |-> code, message |-> message, success |-> FALSE]

\* ------------------------------------------------------------ the session

JWT_SECRET == "JWT_SECRET"
OtherKey == "attacker-key"

TokenLifeDays == 30

NoUser == [absent |-> TRUE]

NoCookie == [kind |-> "absent"]
MalformedCookie == [kind |-> "malformed"]

\* jwt.sign(payload, secret, {expiresIn: '30d', issuer: 'domice'}) at time t:
\* the payload as JSON with iat, exp and iss added, signed with the secret.
JwtSign(payload, secret, t) ==
    [kind |-> "jwt",
     claims |-> JsonObject(payload) @@ [iat |-> t, exp |-> t + TokenLifeDays, iss |-> "domice"],
     key |-> secret]

generateToken(payload, t) == JwtSign(payload, JWT_SECRET, t)

\* jwt.verify(token, secret) at time t throws on a malformed token, a
\* signature made with another key, or an expired token (t >= exp).
JwtVerifyIgnoresKey(token, secret, t) ==
    /\ token.kind = "jwt"
    /\ t < token.claims.exp

JwtVerifies(token, secret, t) ==
    /\ token.kind = "jwt"
    /\ token.key = secret
    /\ t < token.claims.exp

\* authenticateToken(req, res, next): the response it sends (or none), the
\* req.user it sets, and how many times it calls next.
NoResponse == [status |-> 0, code |-> "", message |-> "", success |-> FALSE]

authenticateTokenSkipsAbsent(cookie, t) ==
    IF cookie.kind # "absent" /\ ~JwtVerifies(cookie, JWT_SECRET, t)
    THEN [res |-> sendErr("Forbidden", "invalid or expired token", 403), user |-> NoUser, next |-> 0]
    ELSE [res |-> NoResponse,
          user |-> IF cookie.kind = "jwt" THEN cookie.claims ELSE NoUser,
          next |-> 1]

authenticateToken(cookie, t) ==
    IF cookie.kind = "absent"
    THEN [res |-> sendErr("Unauthorized", "login required", 401), user |-> NoUser, next |-> 0]
    ELSE IF JwtVerifies(cookie, JWT_SECRET, t)
         THEN [res |-> NoResponse, user |-> cookie.claims, next |-> 1]
         ELSE [res |-> sendErr("Forbidden", "invalid or expired token", 403), user |-> NoUser, next |-> 0]

\* requireTeacher(req, res, next)
requireTeacherLetsAll(user) ==
    [res |-> NoResponse, next |-> 1]

requireTeacher(user) ==
    IF user = NoUser \/ Get(user, "role") # "teacher"
    THEN [res |-> sendErr("FORBIDDEN", "teachers only", 403), next |-> 0]
    ELSE [res |-> NoResponse, next |-> 1]

\* The middleware chain in front of a handler: authenticateToken, then
\* requireTeacher on the staff routes.  pass = the handler runs.
Chain(cookie, staffOnly, t) ==
    LET a == authenticateToken(cookie, t)
        g == requireTeacher(a.user)
    IN  IF a.next = 0
        THEN [res |-> a.res, user |-> a.user, pass |-> FALSE, handled |-> 0]
        ELSE IF staffOnly /\ g.next = 0
             THEN [res |-> g.res, user |-> a.user, pass |-> FALSE, handled |-> 0]
             ELSE [res |-> NoResponse, user |-> a.user, pass |-> TRUE,
                   handled |-> IF staffOnly THEN g.next ELSE a.next]

\* What the model remembers of the request served last.
Served(route, cookie, user, res, handled, arg, out) ==
    [route |-> route, at |-> now, cookie |-> cookie, user |-> user,
     status |-> res.status, code |-> res.code, message |-> res.message,
     success |-> res.success,
     handled |-> handled, arg |-> arg, out |-> out]

NoArg == [none |-> TRUE]

\* Cookies a client can send: none, a string that is no token, a token it
\* signed itself with its own key, or the one login set.
ForgedCookies ==
    {JwtSign([id |-> "g-teacher", role |-> "teacher", stu_num |-> Null], OtherKey, 0)}

Cookies == {NoCookie, MalformedCookie, jar} \cup ForgedCookies

\* ------------------------------------------------------------- the store

SerialTables == {"notices", "posts", "inquires", "leave_requests", "merit_logs",
                 "stay_status", "room_checkins"}

\* rows inserted so far into the tables ts (serial ids are never reused)
RECURSIVE Inserted(_)
Inserted(ts) ==
    IF ts = {} THEN 0
    ELSE LET t == CHOOSE x \in ts : TRUE
         IN  (serial[t] - 1) + Inserted(ts \ {t})

\* Number(req.params.id) of a path segment that is no number
NaN == 0 - 1

\* ids a request can name: no number, the rows inserted so far, one more
RequestIds(t) == {NaN} \cup (1 .. serial[t])

\* .eq("id", id) on a table
RowsById(table, id) == {r \in table : r.id = id}

\* .insert(row) into a table: the rows it held, and the new one
InsertReplaces(table, row) == {row}

InsertLosesRow(table, row) == table

InsertRow(table, row) == table \cup {row}

\* ------------------------------------------------------- QR check-in codec

ENCRYPTION_KEY == "scrypt(QR_CODE_KEY)"

NoQr == [kind |-> "none"]

\* a scanned string without a colon
NoColonText == [kind |-> "text"]

\* JSON.stringify(value) / a text that is no JSON
Json(value) == [json |-> TRUE, value |-> value]
NotJson == [json |-> FALSE]

\* encrypt(text) with the random iv drawn: hex(iv) ':' hex(ciphertext), the
\* ciphertext being the text under aes-256-cbc with that key and iv.
EncryptWith(text, key, iv) ==
    [kind |-> "qr", iv |-> iv, ct |-> [key |-> key, iv |-> iv, text |-> text]]

encrypt(text, iv) == EncryptWith(text, ENCRYPTION_KEY, iv)

\* bytes that are neither the plaintext nor JSON
Garbage == [json |-> FALSE, garbage |-> TRUE]

\* Under a key other than its own, decipher.final throws on the padding of
\* nearly every ciphertext and removes a chance padding from the rest, which
\* then decrypt to garbage; the ciphertexts drawn with iv2 stand for the rest.
Depads(ct) == ct.iv = "iv2"

\* decrypt(text) with the key decipher is given: throws 'Invalid QR Format'
\* without a colon; under another key (or iv) throws in decipher.final or
\* yields garbage.
DecryptIgnoresKey(text, key) ==
    IF text.kind # "qr"
    THEN [threw |-> TRUE, error |-> "Invalid QR Format", text |-> NotJson]
    ELSE [threw |-> FALSE, error |-> "", text |-> text.ct.text]

DecryptWith(text, key) ==
    IF text.kind # "qr"
    THEN [threw |-> TRUE, error |-> "Invalid QR Format", text |-> NotJson]
    ELSE IF text.ct.key # key \/ text.ct.iv # text.iv
         THEN IF Depads(text.ct)
              THEN [threw |-> FALSE, error |-> "", text |-> Garbage]
              ELSE [threw |-> TRUE, error |-> "bad decrypt", text |-> NotJson]
         ELSE [threw |-> FALSE, error |-> "", text |-> text.ct.text]

decrypt(text) == DecryptWith(text, ENCRYPTION_KEY)

\* ------------------------------------------------- the identity provider

StaffEmail == [local |-> "kjt081025", domain |-> "gmail.com"]
SchoolDomain == "e-mirim.hs.kr"
NoEmail == [absent |-> TRUE]
NoName == [absent |-> TRUE]

\* The accounts the provider knows.  family_name is kept as its first four
\* characters (what slice(0, 4) returns) and the rest.
GoogleUsers ==
    { [id |-> "g-teacher", email |-> StaffEmail, family_name |-> [head |-> "Kim", rest |-> ""]],
      [id |-> "g-stu", email |-> [local |-> "s2401", domain |-> SchoolDomain],
       family_name |-> [head |-> "2401", rest |-> "Lee"]],
      [id |-> "g-anon", email |-> [local |-> "s2402", domain |-> SchoolDomain],
       family_name |-> NoName],
      [id |-> "g-out", email |-> [local |-> "someone", domain |-> "gmail.com"],
       family_name |-> [head |-> "Park", rest |-> ""]] }

UserIds == {u.id : u \in GoogleUsers}

\* the provider's answer to a token granted without the email scope: a
\* profile without an email
ScopelessUser ==
    [id |-> "g-noemail", email |-> NoEmail, family_name |-> [head |-> "Choi", rest |-> ""]]

ProviderAnswers == GoogleUsers \cup {ScopelessUser}

\* lines 2657-2683: the role and stu_num login derives from the provider's
\* answer; rejected = the 403 of line 2672.  A TypeError inside the inner try
\* (email or family_name missing) is caught there and leaves both fields unset.
DeriveIdentity(g) ==
    IF g.email = NoEmail
    THEN [rejected |-> FALSE, role |-> Undef, stu_num |-> Undef]
    ELSE IF g.email = StaffEmail
    THEN [rejected |-> FALSE, role |-> "teacher", stu_num |-> Null]
    ELSE IF g.email.domain # SchoolDomain
         THEN [rejected |-> TRUE, role |-> Undef, stu_num |-> Undef]
         ELSE IF g.family_name = NoName
              THEN [rejected |-> FALSE, role |-> Undef, stu_num |-> Undef]
              ELSE [rejected |-> FALSE, role |-> "student", stu_num |-> g.family_name.head]

\* --------------------------------------------------------------- /api/auth

ProviderFailed == [failed |-> TRUE]

\* POST /api/auth/login.  provider = ProviderFailed when the userinfo call
\* fails: userData stays undefined and reading userData.id throws (500).
LoginOutcomeIgnoresStoredRole(accessToken, provider, dbError) ==
    IF Falsy(accessToken)
    THEN [res |-> sendErr("BAD_REQUEST", "access_token required", 400), cookie |-> NoCookie, payload |-> NoArg,
          join |-> FALSE, role |-> Undef]
    ELSE IF provider = ProviderFailed
         THEN [res |-> sendErr("SERVER_ERROR", "internal server error", 500), cookie |-> NoCookie, payload |-> NoArg,
               join |-> FALSE, role |-> Undef]
         ELSE LET d == DeriveIdentity(provider)
                  rows == IF dbError THEN {} ELSE RowsById(profiles, provider.id)
                  userExists == rows # {}
                  payload == [id |-> provider.id, role |-> d.role, stu_num |-> d.stu_num]
              IN  IF d.rejected
                  THEN [res |-> sendErr("Forbiddena", "school accounts only", 403), cookie |-> NoCookie,
                        payload |-> NoArg, join |-> FALSE, role |-> Undef]
                  ELSE IF dbError
                       THEN [res |-> sendErr("SERVER_ERROR", "user lookup failed", 500), cookie |-> NoCookie,
                             payload |-> NoArg, join |-> FALSE, role |-> Undef]
                       ELSE [res |-> sendOk(200), cookie |-> generateToken(payload, now),
                             payload |-> payload, join |-> userExists, role |-> d.role]

LoginOutcome(accessToken, provider, dbError) ==
    IF Falsy(accessToken)
    THEN [res |-> sendErr("BAD_REQUEST", "access_token required", 400), cookie |-> NoCookie, payload |-> NoArg,
          join |-> FALSE, role |-> Undef]
    ELSE IF provider = ProviderFailed
         THEN [res |-> sendErr("SERVER_ERROR", "internal server error", 500), cookie |-> NoCookie, payload |-> NoArg,
               join |-> FALSE, role |-> Undef]
         ELSE LET d == DeriveIdentity(provider)
                  rows == IF dbError THEN {} ELSE RowsById(profiles, provider.id)
                  userExists == rows # {}
                  dbRole == IF userExists THEN (CHOOSE r \in rows : TRUE).role ELSE Undef
                  role == IF Falsy(dbRole) THEN d.role ELSE dbRole
                  payload == [id |-> provider.id, role |-> role, stu_num |-> d.stu_num]
              IN  IF d.rejected
                  THEN [res |-> sendErr("Forbiddena", "school accounts only", 403), cookie |-> NoCookie,
                        payload |-> NoArg, join |-> FALSE, role |-> Undef]
                  ELSE IF dbError
                       THEN [res |-> sendErr("SERVER_ERROR", "user lookup failed", 500), cookie |-> NoCookie,
                             payload |-> NoArg, join |-> FALSE, role |-> Undef]
                       ELSE [res |-> sendOk(200), cookie |-> generateToken(payload, now),
                             payload |-> payload, join |-> userExists, role |-> role]

\* the request bodies and environment answers login is tried with
LoginInputs ==
    {[accessToken |-> Undef, provider |-> ProviderFailed, dbError |-> FALSE],
     [accessToken |-> "oauth-token", provider |-> ProviderFailed, dbError |-> FALSE]}
    \cup [accessToken : {"oauth-token"}, provider : ProviderAnswers, dbError : BOOLEAN]

Login ==
    \E in \in LoginInputs :
        LET o == LoginOutcome(in.accessToken, in.provider, in.dbError)
        IN  /\ jar' = IF o.cookie = NoCookie THEN jar ELSE o.cookie
            /\ minted' = IF o.cookie = NoCookie THEN minted ELSE o.payload
            /\ last' = Served("POST /api/auth/login", NoCookie, NoUser, o.res, 1, NoArg,
                              [cookie |-> o.cookie, join |-> o.join, role |-> o.role])
            /\ UNCHANGED <<now, tz, qr, tables, serial, mreq, sreq>>

\* POST /api/auth/signup: the body's id and role go into profiles as they
\* are; a row for anyone but a teacher gets a stu_details row too.  The id
\* is the key of both tables, so a second row with the same id is refused.
\* store = "ok", or the insert that fails.
SignupInputs ==
    {[id |-> Undef, role |-> Undef, store |-> "ok"]}
    \cup [id : UserIds, role : {"student", "teacher", Undef}, store : {"ok", "error1", "error2"}]

Signup ==
    \E in \in SignupInputs :
        LET id == in.id
            role == in.role
            fail1 == in.store = "error1" \/ RowsById(profiles, id) # {}
            fail2 == in.store = "error2" \/ RowsById(stu_details, id) # {}
            res == IF Falsy(id) THEN sendErr("BAD_REQUEST", "user id required", 400)
                   ELSE IF fail1 THEN sendErr("SERVER_ERROR", "saving the profile failed", 500)
                   ELSE IF role # "teacher" /\ fail2 THEN sendErr("SERVER_ERROR", "saving the student details failed", 500)
                   ELSE sendOk(201)
        IN  /\ (~Falsy(id) /\ ~fail1) => Cardinality(profiles) < MaxProfiles
            /\ profiles' = IF Falsy(id) \/ fail1 THEN profiles
                           ELSE profiles \cup
                                {[id |-> id, role |-> IF role = Undef THEN Null ELSE role]}
            /\ stu_details' = IF Falsy(id) \/ fail1 \/ role = "teacher" \/ fail2
                              THEN stu_details
                              ELSE stu_details \cup
                                   {[id |-> id, plus_score |-> 0, minus_score |-> 0]}
            /\ last' = Served("POST /api/auth/signup", NoCookie, NoUser, res, 1, NoArg, NoArg)
            /\ UNCHANGED <<now, tz, qr, jar, minted, notices, posts, inquires,
                           leave_requests, merit_logs, stay_status, room_checkins, serial,
                           mreq, sreq>>

\* GET /api/auth/logout: clears the cookie at the browser; the server keeps
\* no session, so nothing of its state changes.
Logout ==
    /\ jar' = NoCookie
    /\ minted' = NoArg
    /\ last' = Served("GET /api/auth/logout", NoCookie, NoUser, sendOk(200), 1, NoArg, NoArg)
    /\ UNCHANGED <<now, tz, qr, tables, serial, mreq, sreq>>

\* GET /api/auth/me, behind authenticateToken
Me ==
    \E cookie \in Cookies, error \in BOOLEAN :
        LET c == Chain(cookie, FALSE, now)
            rows == RowsById(profiles, Get(c.user, "id"))
            res == IF ~c.pass THEN c.res
                   ELSE IF error \/ rows = {} THEN sendErr("NOT_FOUND", "no such profile", 404)
                   ELSE sendOk(200)
        IN  /\ last' = Served("GET /api/auth/me", cookie, c.user, res, c.handled, NoArg, NoArg)
            /\ UNCHANGED <<now, tz, qr, jar, minted, tables, serial, mreq, sreq>>

\* The clock moves on.  The steps straddle the lifetime of a token.
ExpirySteps == {TokenLifeDays - 1, TokenLifeDays}

AdvanceClock ==
    \E d \in ExpirySteps :
        /\ now + d <= MaxDay
        /\ now' = now + d
        /\ UNCHANGED <<tz, qr, jar, minted, last, tables, serial, mreq, sreq>>

NoRequests == <<>>

Init ==
    /\ now = 0
    /\ tz = 0
    /\ qr = NoQr
    /\ profiles = {}
    /\ stu_details = {}
    /\ jar = NoCookie
    /\ minted = NoArg
    /\ last = Served("none", NoCookie, NoUser, NoResponse, 0, NoArg, NoArg)
    /\ notices = {}
    /\ posts = {}
    /\ inquires = {}
    /\ leave_requests = {}
    /\ merit_logs = {}
    /\ stay_status = {}
    /\ room_checkins = {}
    /\ serial = [t \in SerialTables |-> 1]
    /\ mreq = NoRequests
    /\ sreq = NoRequests

\* The store as two sign-ups leave it: a student with a stu_details row and
\* a teacher without one.
SchoolProfiles ==
    {[id |-> "g-stu", role |-> "student"], [id |-> "g-teacher", role |-> "teacher"]}

SchoolDetails == {[id |-> "g-stu", plus_score |-> 0, minus_score |-> 0]}

School(day) ==
    /\ now = day
    /\ tz = 0
    /\ qr = NoQr
    /\ profiles = SchoolProfiles
    /\ stu_details = SchoolDetails
    /\ jar = NoCookie
    /\ minted = NoArg
    /\ last = Served("none", NoCookie, NoUser, NoResponse, 0, NoArg, NoArg)
    /\ notices = {}
    /\ posts = {}
    /\ inquires = {}
    /\ leave_requests = {}
    /\ merit_logs = {}
    /\ stay_status = {}
    /\ room_checkins = {}
    /\ serial = [t \in SerialTables |-> 1]
    /\ mreq = NoRequests
    /\ sreq = NoRequests

InitSchool == School(0)

NextAuth ==
    \/ Login
    \/ Signup
    \/ Logout
    \/ Me
    \/ AdvanceClock

SpecAuth == Init /\ [][NextAuth]_vars

\* ------------------------------------------------------ sessions in use

\* The cookies login hands out to the provider's accounts (none to the
\* account outside the school), as the requests of the other routes carry
\* them, besides no cookie.
SessionCookies ==
    {LoginOutcome("oauth-token", g, FALSE).cookie : g \in GoogleUsers} \ {NoCookie}

RequestCookies == {NoCookie} \cup SessionCookies

\* a step of another route leaves the session state alone
SessionUnchanged == UNCHANGED <<now, tz, jar, minted, profiles>>

\* A request the chain stops never reaches the handler, so its body and the
\* store's answer play no part: one such request stands for all of them.
BodyRead(pass, unread) == pass \/ unread

\* ------------------------------------------------------------- /api/notices

StaffTables == {"notices", "leave_requests", "inquires", "merit_logs"}

StaffBudget == Inserted(StaffTables) < MaxStaffRows

\* POST /api/notices (staff): body {title, content, target}
NoticeCreate ==
    \E cookie \in RequestCookies, title \in {Undef, "a"}, error \in BOOLEAN :
        LET c == Chain(cookie, TRUE, now)
            inserts == c.pass /\ ~Falsy(title) /\ ~error
            res == IF ~c.pass THEN c.res
                   ELSE IF Falsy(title) THEN sendErr("BAD_REQUEST", "title and content required", 400)
                   ELSE IF error THEN sendErr("SERVER_ERROR", "writing the notice failed", 500)
                   ELSE sendOk(201)
        IN  /\ BodyRead(c.pass, title = Undef /\ ~error)
            /\ inserts => StaffBudget
            /\ notices' = IF inserts
                          THEN notices \cup {[id |-> serial["notices"], title |-> title,
                                              author |-> Get(c.user, "id")]}
                          ELSE notices
            /\ serial' = IF inserts
                         THEN [serial EXCEPT !["notices"] = @ + 1] ELSE serial
            /\ last' = Served("POST /api/notices", cookie, c.user, res, c.handled, NoArg, NoArg)
            /\ SessionUnchanged
            /\ UNCHANGED <<qr, stu_details, posts, inquires, leave_requests, merit_logs,
                           stay_status, room_checkins, mreq, sreq>>

\* PUT /api/notices/:noticeId (staff): writes title, content and target of
\* the row with that id; answers 200 whether or not a row has it.
NoticeEdit ==
    \E cookie \in RequestCookies, noticeId \in RequestIds("notices"),
       title \in {"b"}, error \in BOOLEAN :
        LET c == Chain(cookie, TRUE, now)
            writes == c.pass /\ noticeId # NaN /\ ~error
            res == IF ~c.pass THEN c.res
                   ELSE IF noticeId = NaN THEN sendErr("BAD_REQUEST", "valid noticeId required", 400)
                   ELSE IF error THEN sendErr("SERVER_ERROR", "editing the notice failed", 500)
                   ELSE sendOk(200)
        IN  /\ BodyRead(c.pass, noticeId = NaN /\ ~error)
            /\ notices' = IF writes
                          THEN {IF r.id = noticeId THEN [r EXCEPT !.title = title] ELSE r :
                                r \in notices}
                          ELSE notices
            /\ last' = Served("PUT /api/notices/:noticeId", cookie, c.user, res, c.handled,
                              NoArg, NoArg)
            /\ SessionUnchanged
            /\ UNCHANGED <<qr, stu_details, posts, inquires, leave_requests, merit_logs,
                           stay_status, room_checkins, serial, mreq, sreq>>

\* DELETE /api/notices/:noticeId (staff)
NoticeDelete ==
    \E cookie \in RequestCookies, noticeId \in RequestIds("notices"), error \in BOOLEAN :
        LET c == Chain(cookie, TRUE, now)
            writes == c.pass /\ noticeId # NaN /\ ~error
            res == IF ~c.pass THEN c.res
                   ELSE IF noticeId = NaN THEN sendErr("BAD_REQUEST", "valid noticeId required", 400)
                   ELSE IF error THEN sendErr("SERVER_ERROR", "deleting the notice failed", 500)
                   ELSE sendOk(200)
        IN  /\ BodyRead(c.pass, noticeId = NaN /\ ~error)
            /\ notices' = IF writes THEN notices \ RowsById(notices, noticeId) ELSE notices
            /\ last' = Served("DELETE /api/notices/:noticeId", cookie, c.user, res, c.handled,
                              NoArg, NoArg)
            /\ SessionUnchanged
            /\ UNCHANGED <<qr, stu_details, posts, inquires, leave_requests, merit_logs,
                           stay_status, room_checkins, serial, mreq, sreq>>

\* --------------------------------------------------------------- /api/leave

\* leave_requests.status: the column's default and the two values written
Pending == 0
Approved == 1
Rejected == 2

\* POST /api/leave: body {leave_date, reason}; status is left to its default
LeaveCreate(cookies, budget) ==
    \E cookie \in cookies, bodyOk \in BOOLEAN, error \in BOOLEAN :
        LET c == Chain(cookie, FALSE, now)
            inserts == c.pass /\ bodyOk /\ ~error
            res == IF ~c.pass THEN c.res
                   ELSE IF ~bodyOk THEN sendErr("BAD_REQUEST", "leave_date and reason required", 400)
                   ELSE IF error THEN sendErr("SERVER_ERROR", "saving the leave request failed", 500)
                   ELSE sendOk(201)
        IN  /\ BodyRead(c.pass, ~bodyOk /\ ~error)
            /\ inserts => budget
            /\ leave_requests' =
                  IF inserts
                  THEN leave_requests \cup {[id |-> serial["leave_requests"],
                                             user_id |-> Get(c.user, "id"),
                                             status |-> Pending, approved_at |-> Null]}
                  ELSE leave_requests
            /\ serial' = IF inserts
                         THEN [serial EXCEPT !["leave_requests"] = @ + 1] ELSE serial
            /\ last' = Served("POST /api/leave", cookie, c.user, res, c.handled, NoArg, NoArg)
            /\ SessionUnchanged
            /\ UNCHANGED <<qr, stu_details, notices, posts, inquires, merit_logs,
                           stay_status, room_checkins, mreq, sreq>>

DecidedStatusAbsentKeepsPending(approval) ==
    IF approval = Undef THEN Pending
    ELSE IF approval = "true" THEN Approved ELSE Rejected

\* line 1977: the status written for the body's approval field, `approval ?
\* 1 : 2`.  The field is absent (undefined) or one of the JSON literals true
\* and false, written here as their text.
DecidedStatus(approval) ==
    IF ~Falsy(approval) /\ approval # "false" THEN Approved ELSE Rejected

\* POST /api/leave/check (staff): body {id, approval}.  One update of the
\* row with that id, whatever its status.  A failed update hands back no
\* data, reading data.length throws, and the catch answers 500.
LeaveCheck ==
    \E cookie \in RequestCookies, id \in 1 .. serial["leave_requests"],
       approval \in {Undef, "true", "false"}, error \in BOOLEAN :
        LET c == Chain(cookie, TRUE, now)
            hit == RowsById(leave_requests, id)
            writes == c.pass /\ ~error
            res == IF ~c.pass THEN c.res
                   ELSE IF error THEN sendErr("SERVER_ERROR", "internal server error", 500)
                   ELSE IF hit = {} THEN sendErr("NOT_FOUND", "no such leave request", 404)
                   ELSE sendOk(200)
        IN  /\ BodyRead(c.pass, id = 1 /\ approval = Undef /\ ~error)
            /\ leave_requests' =
                  IF writes
                  THEN {IF r.id = id THEN [r EXCEPT !.status = DecidedStatus(approval)] ELSE r :
                        r \in leave_requests}
                  ELSE leave_requests
            /\ last' = Served("POST /api/leave/check", cookie, c.user, res, c.handled,
                              [id |-> id, approval |-> approval], NoArg)
            /\ SessionUnchanged
            /\ UNCHANGED <<qr, stu_details, notices, posts, inquires, merit_logs,
                           stay_status, room_checkins, serial, mreq, sreq>>

\* ------------------------------------------------------------ /api/inquires

\* POST /api/inquires: body {title, content}.  budget = the specification's
\* room for one more row.
InquiryCreate(cookies, budget) ==
    \E cookie \in cookies, bodyOk \in BOOLEAN, error \in BOOLEAN :
        LET c == Chain(cookie, FALSE, now)
            inserts == c.pass /\ bodyOk /\ ~error
            res == IF ~c.pass THEN c.res
                   ELSE IF ~bodyOk THEN sendErr("BAD_REQUEST", "title and content required", 400)
                   ELSE IF error THEN sendErr("SERVER_ERROR", "writing the inquiry failed", 500)
                   ELSE sendOk(201)
        IN  /\ BodyRead(c.pass, ~bodyOk /\ ~error)
            /\ inserts => budget
            /\ inquires' = IF inserts
                           THEN inquires \cup {[id |-> serial["inquires"],
                                                user_id |-> Get(c.user, "id"),
                                                reply |-> Null]}
                           ELSE inquires
            /\ serial' = IF inserts
                         THEN [serial EXCEPT !["inquires"] = @ + 1] ELSE serial
            /\ last' = Served("POST /api/inquires", cookie, c.user, res, c.handled, NoArg, NoArg)
            /\ SessionUnchanged
            /\ UNCHANGED <<qr, stu_details, notices, posts, leave_requests, merit_logs,
                           stay_status, room_checkins, mreq, sreq>>

\* POST /api/inquires/:postId/reply (staff): body {reply}
InquiryReply ==
    \E cookie \in RequestCookies, postId \in RequestIds("inquires"),
       reply \in {Undef, "r"}, store \in {"ok", "fetchError", "error"} :
        LET c == Chain(cookie, TRUE, now)
            hit == RowsById(inquires, postId)
            res == IF ~c.pass THEN c.res
                   ELSE IF Falsy(reply) THEN sendErr("BAD_REQUEST", "valid reply required", 400)
                   ELSE IF postId = NaN THEN sendErr("BAD_REQUEST", "valid postId required", 400)
                   ELSE IF store = "fetchError" \/ hit = {} THEN sendErr("NOT_FOUND", "no such inquiry", 404)
                   ELSE IF store = "error" THEN sendErr("SERVER_ERROR", "replying failed", 500)
                   ELSE sendOk(200)
        IN  /\ BodyRead(c.pass, postId = NaN /\ reply = Undef /\ store = "ok")
            /\ inquires' = IF res.success
                           THEN {IF r.id = postId THEN [r EXCEPT !.reply = reply] ELSE r :
                                 r \in inquires}
                           ELSE inquires
            /\ last' = Served("POST /api/inquires/:postId/reply", cookie, c.user, res,
                              c.handled, NoArg, NoArg)
            /\ SessionUnchanged
            /\ UNCHANGED <<qr, stu_details, notices, posts, leave_requests, merit_logs,
                           stay_status, room_checkins, serial, mreq, sreq>>

\* --------------------------------------------------------- /api/roomcheckins

IVs == {"iv1"}
Nonces == {"n1", "n2"}

QR_TYPE == "DOMICE"

\* GET /api/roomcheckins/qr (staff): today is the UTC date of toISOString
QrIssue(cookies) ==
    \E cookie \in cookies, iv \in IVs, nonce \in Nonces :
        LET c == Chain(cookie, TRUE, now)
            payload == [date |-> now, type |-> QR_TYPE, nonce |-> nonce]
            qrData == encrypt(Json(payload), iv)
            res == IF ~c.pass THEN c.res ELSE sendOk(200)
        IN  /\ BodyRead(c.pass, iv = (CHOOSE i \in IVs : TRUE)
                                 /\ nonce = (CHOOSE n \in Nonces : TRUE))
            /\ qr' = IF c.pass THEN qrData ELSE qr
            /\ last' = Served("GET /api/roomcheckins/qr", cookie, c.user, res, c.handled,
                              NoArg, IF c.pass THEN qrData ELSE NoQr)
            /\ SessionUnchanged
            /\ UNCHANGED <<tables, serial, mreq, sreq>>

MinutesPerDay == 24 * 60

\* the local wall clock (getHours, getMinutes, getTodayDateStr) at UTC
\* minute m of day `now`
LocalMinute(m) == (m + tz) % MinutesPerDay

LocalDay(m) == now + ((m + tz) \div MinutesPerDay)

\* TIME_LIMITS, lines 1785-1792
AFTER_SCHOOL_START == 960
AFTER_DINNER_START == 990
AFTER_DINNER_START_ACTUAL == 1040
RETURN_8PM_START == 1100
RETURN_8PM_END == 1230
LATE_START == 1230

\* lines 1794-1805
CheckTypeClosedAbove(totalMinutes) ==
    IF totalMinutes <= AFTER_SCHOOL_START THEN "EARLY"
    ELSE IF totalMinutes <= AFTER_DINNER_START THEN "AFTER_SCHOOL"
    ELSE IF totalMinutes <= RETURN_8PM_START THEN "AFTER_DINNER"
    ELSE IF totalMinutes <= LATE_START THEN "RETURN_8PM"
    ELSE "LATE"

CheckTypeByActualDinner(totalMinutes) ==
    IF totalMinutes < AFTER_SCHOOL_START THEN "EARLY"
    ELSE IF totalMinutes < AFTER_DINNER_START_ACTUAL THEN "AFTER_SCHOOL"
    ELSE IF totalMinutes < RETURN_8PM_START THEN "AFTER_DINNER"
    ELSE IF totalMinutes < LATE_START THEN "RETURN_8PM"
    ELSE "LATE"

CheckType(totalMinutes) ==
    IF totalMinutes < AFTER_SCHOOL_START THEN "EARLY"
    ELSE IF totalMinutes < AFTER_DINNER_START THEN "AFTER_SCHOOL"
    ELSE IF totalMinutes < RETURN_8PM_START THEN "AFTER_DINNER"
    ELSE IF totalMinutes < LATE_START THEN "RETURN_8PM"
    ELSE "LATE"

NoDate == 0 - 1

\* lines 1753-1777: the response that ends the request before the insert, or
\* NoResponse when the payload is let through.  today = the UTC date.
ScanCheckIgnoresDate(qrData, today) ==
    IF qrData = NoQr THEN sendErr("Bad_Request", "QR data required", 400)
    ELSE LET d == decrypt(qrData)
         IN  IF d.threw \/ ~d.text.json THEN sendErr("Unauthorized", "invalid QR code", 401)
             ELSE IF d.text.value.type # QR_TYPE THEN sendErr("Unauthorized", "invalid QR code", 401)
             ELSE NoResponse

ScanCheckStaleIsInvalid(qrData, today) ==
    IF qrData = NoQr THEN sendErr("Bad_Request", "QR data required", 400)
    ELSE LET d == decrypt(qrData)
         IN  IF d.threw \/ ~d.text.json THEN sendErr("Unauthorized", "invalid QR code", 401)
             ELSE IF d.text.value.type # QR_TYPE \/ d.text.value.date # today
                  THEN sendErr("Unauthorized", "invalid QR code", 401)
                  ELSE NoResponse

ScanCheckTypeIsForbidden(qrData, today) ==
    IF qrData = NoQr THEN sendErr("Bad_Request", "QR data required", 400)
    ELSE LET d == decrypt(qrData)
         IN  IF d.threw \/ ~d.text.json THEN sendErr("Unauthorized", "invalid QR code", 401)
             ELSE IF d.text.value.type # QR_TYPE \/ d.text.value.date # today
                  THEN sendErr("Forbidden", "expired QR code", 403)
                  ELSE NoResponse

ScanCheck(qrData, today) ==
    IF qrData = NoQr THEN sendErr("Bad_Request", "QR data required", 400)
    ELSE LET d == decrypt(qrData)
         IN  IF d.threw \/ ~d.text.json THEN sendErr("Unauthorized", "invalid QR code", 401)
             ELSE IF d.text.value.type # QR_TYPE THEN sendErr("Unauthorized", "invalid QR code", 401)
             ELSE IF d.text.value.date # today THEN sendErr("Forbidden", "expired QR code", 403)
             ELSE NoResponse

\* what a client can put in the body's qrData: nothing, a text without a
\* colon, the code issued last, and payloads of its own make under the
\* server's key or another, dated yesterday, today or tomorrow.
MadePayloads ==
    [date : {now - 1, now, now + 1}, type : {QR_TYPE, "OTHER"}, nonce : {"n1"}]

ScanInputs ==
    {NoQr, NoColonText, qr, encrypt(NotJson, "iv1")}
    \cup {encrypt(Json(p), "iv1") : p \in MadePayloads}
    \cup {EncryptWith(Json([date |-> now, type |-> QR_TYPE, nonce |-> "n1"]), OtherKey, "iv1")}

\* POST /api/roomcheckins: body {qrData}.  minutes = the UTC minutes of the
\* day the clock is read at.
Scan(cookies, minutes) ==
    \E cookie \in cookies, qrData \in ScanInputs :
        LET c == Chain(cookie, FALSE, now)
            check == ScanCheck(qrData, now)
        IN  \/ /\ ~c.pass
               /\ last' = Served("POST /api/roomcheckins", cookie, c.user, c.res, c.handled,
                                 NoArg, NoArg)
               /\ SessionUnchanged
               /\ UNCHANGED <<qr, tables, serial, mreq, sreq>>
            \/ /\ c.pass
               /\ check # NoResponse
               /\ last' = Served("POST /api/roomcheckins", cookie, c.user, check, c.handled,
                                 [qrData |-> qrData], NoArg)
               /\ SessionUnchanged
               /\ UNCHANGED <<qr, tables, serial, mreq, sreq>>
            \/ /\ c.pass
               /\ check = NoResponse
               /\ \E m \in minutes, error \in BOOLEAN :
                    LET row == [id |-> serial["room_checkins"],
                                user_id |-> Get(c.user, "id"),
                                check_date |-> LocalDay(m),
                                check_type |-> CheckType(LocalMinute(m))]
                    IN  /\ ~error => serial["room_checkins"] <= MaxScans
                        /\ room_checkins' = IF error THEN room_checkins
                                            ELSE InsertRow(room_checkins, row)
                        /\ serial' = IF error THEN serial
                                     ELSE [serial EXCEPT !["room_checkins"] = @ + 1]
                        /\ last' = Served("POST /api/roomcheckins", cookie, c.user,
                                          IF error THEN sendErr("SERVER_ERROR", "saving the check-in failed", 500)
                                          ELSE sendOk(201),
                                          c.handled, [qrData |-> qrData],
                                          [totalMinutes |-> LocalMinute(m)])
               /\ SessionUnchanged
               /\ UNCHANGED <<qr, profiles, stu_details, notices, posts, inquires,
                              leave_requests, merit_logs, stay_status, mreq, sreq>>

\* midnight UTC passes
NextDay(lastDay) ==
    /\ now < lastDay
    /\ now' = now + 1
    /\ UNCHANGED <<tz, qr, jar, minted, last, tables, serial, mreq, sreq>>

\* offsets of the server's time zone the model is run with (UTC, KST)
TimeZones == {0, 540}

\* UTC minutes of the day a scan is made at
ScanMinutes == {420, 960}

InitCheckin ==
    /\ now = 0
    /\ tz \in TimeZones
    /\ qr = NoQr
    /\ profiles = {}
    /\ stu_details = {}
    /\ jar = NoCookie
    /\ minted = NoArg
    /\ last = Served("none", NoCookie, NoUser, NoResponse, 0, NoArg, NoArg)
    /\ notices = {}
    /\ posts = {}
    /\ inquires = {}
    /\ leave_requests = {}
    /\ merit_logs = {}
    /\ stay_status = {}
    /\ room_checkins = {}
    /\ serial = [t \in SerialTables |-> 1]
    /\ mreq = NoRequests
    /\ sreq = NoRequests

\* the sessions of the check-in runs: a teacher issues, a student scans
CheckinCookies ==
    {NoCookie} \cup {c \in SessionCookies : Get(c.claims, "role") \in {"student", "teacher"}}

ScanCookies == {c \in CheckinCookies : c = NoCookie \/ Get(c.claims, "role") = "student"}

NextCheckin ==
    \/ QrIssue(CheckinCookies)
    \/ Scan(ScanCookies, ScanMinutes)
    \/ NextDay(MaxScanDay)

SpecCheckin == InitCheckin /\ [][NextCheckin]_vars

\* ------------------------------------------------------ /api/admin/meritlogs

\* line 2243: log_type, '상점' (merit) for type 'plus' and '벌점' (demerit)
\* for anything else
LogType(type) == IF type = "plus" THEN "merit" ELSE "demerit"

\* lines 2274-2275: the totals written, from the totals read
NewPlusAnyType(plus_score, type, score) == plus_score + score

NewPlus(plus_score, type, score) == plus_score + (IF type = "plus" THEN score ELSE 0)

NewMinus(minus_score, type, score) == minus_score + (IF type = "minus" THEN score ELSE 0)

MeritRoute == "POST /api/admin/meritlogs"

\* a request between two awaits: pc says which store call it waits for
MeritRequest(pc, cookie, user_id, score, type, plus, minus, status) ==
    [pc |-> pc, cookie |-> cookie, user_id |-> user_id, score |-> score, type |-> type,
     plus |-> plus, minus |-> minus, status |-> status]

\* POST /api/admin/meritlogs (staff), up to the answer of the insert: body
\* {user_id, reason, score, type}.  score 0 stands for a missing score.
MeritInsert(cookies, users, scores, types, budget) ==
    \E cookie \in cookies, user_id \in users, score \in scores, type \in types,
       insertError \in BOOLEAN :
        LET c == Chain(cookie, TRUE, now)
            bad == Falsy(user_id) \/ score = 0 \/ Falsy(type)
            inserts == c.pass /\ ~bad /\ ~insertError
            res == IF ~c.pass THEN c.res
                   ELSE IF bad THEN sendErr("BAD_REQUEST", "user_id, reason, score, type required", 400)
                   ELSE IF insertError THEN sendErr("SERVER_ERROR", "adding the log failed", 500)
                   ELSE NoResponse
            r == Len(mreq) + 1
        IN  /\ BodyRead(c.pass, score = 0 /\ ~insertError
                                 /\ user_id = (CHOOSE u \in users : TRUE)
                                 /\ type = (CHOOSE t \in types : TRUE))
            /\ inserts => budget
            /\ merit_logs' = IF inserts
                             THEN InsertRow(merit_logs, [id |-> serial["merit_logs"],
                                                         user_id |-> user_id,
                                                         log_type |-> LogType(type),
                                                         score |-> score])
                             ELSE merit_logs
            /\ serial' = IF inserts
                         THEN [serial EXCEPT !["merit_logs"] = @ + 1] ELSE serial
            /\ mreq' = IF inserts
                       THEN Append(mreq, MeritRequest("inserted", cookie, user_id, score,
                                                      type, 0, 0, 0))
                       ELSE mreq
            /\ last' = Served(MeritRoute, cookie, c.user, res, c.handled,
                              IF inserts THEN [request |-> r] ELSE NoArg, NoArg)
            /\ SessionUnchanged
            /\ UNCHANGED <<qr, stu_details, notices, posts, inquires, leave_requests,
                           stay_status, room_checkins, sreq>>

\* lines 2264-2272 and 2274: what the profile lookup makes of the request.  A
\* profile without a stu_details row makes line 2274 throw: 500.
MeritLookupBadRequest(fetchError, found, details) ==
    IF fetchError \/ found = {}
    THEN sendErr("BAD_REQUEST", "no such student profile", 400)
    ELSE IF details = {}
         THEN sendErr("SERVER_ERROR", "internal server error", 500)
         ELSE NoResponse

MeritLookup(fetchError, found, details) ==
    IF fetchError \/ found = {}
    THEN sendErr("NOT_FOUND", "no such student profile", 404)
    ELSE IF details = {}
         THEN sendErr("SERVER_ERROR", "internal server error", 500)
         ELSE NoResponse

\* ... from there to the answer of the profile lookup (lines 2258-2272)
MeritFetch ==
    \E r \in DOMAIN mreq, fetchError \in BOOLEAN :
        LET q == mreq[r]
            found == RowsById(profiles, q.user_id)
            details == RowsById(stu_details, q.user_id)
            res == MeritLookup(fetchError, found, details)
            d == CHOOSE x \in details : TRUE
        IN  /\ q.pc = "inserted"
            /\ mreq' = [mreq EXCEPT ![r] =
                          IF res = NoResponse
                          THEN [q EXCEPT !.pc = "fetched", !.plus = d.plus_score,
                                         !.minus = d.minus_score]
                          ELSE [q EXCEPT !.pc = "done", !.status = res.status]]
            /\ last' = Served(MeritRoute, q.cookie, q.cookie.claims, res, 1,
                              [request |-> r], NoArg)
            /\ SessionUnchanged
            /\ UNCHANGED <<qr, tables, serial, sreq>>

\* ... and from there to the response (lines 2274-2295)
MeritUpdate ==
    \E r \in DOMAIN mreq, updateError \in BOOLEAN :
        LET q == mreq[r]
            res == IF updateError
                   THEN sendErr("SERVER_ERROR", "updating the totals failed", 500)
                   ELSE sendOk(201)
        IN  /\ q.pc = "fetched"
            /\ stu_details' =
                  IF updateError THEN stu_details
                  ELSE {IF d.id = q.user_id
                        THEN [d EXCEPT !.plus_score = NewPlus(q.plus, q.type, q.score),
                                       !.minus_score = NewMinus(q.minus, q.type, q.score)]
                        ELSE d : d \in stu_details}
            /\ mreq' = [mreq EXCEPT ![r] = [q EXCEPT !.pc = "done", !.status = res.status]]
            /\ last' = Served(MeritRoute, q.cookie, q.cookie.claims, res, 1,
                              [request |-> r], NoArg)
            /\ SessionUnchanged
            /\ UNCHANGED <<qr, profiles, notices, posts, inquires, leave_requests,
                           merit_logs, stay_status, room_checkins, serial, sreq>>

StudentCookies == {c \in SessionCookies : Get(c.claims, "role") = "student"}

\* the awards the merit runs are made with
MeritCookies == {c \in SessionCookies : Get(c.claims, "role") \in {"student", "teacher"}}

MeritBudget == Inserted({"merit_logs"}) < MaxAwards

NextMerit ==
    \/ MeritInsert(MeritCookies, {"g-stu"}, {0, 1, 2}, {"plus", "minus"}, MeritBudget)
    \/ MeritFetch
    \/ MeritUpdate

SpecMerit == InitSchool /\ [][NextMerit]_vars

\* ------------------------------------------------------------- /api/posts

\* POST /api/posts: body {title, content, is_secret}
PostCreate(cookies, budget) ==
    \E cookie \in cookies, bodyOk \in BOOLEAN, error \in BOOLEAN :
        LET c == Chain(cookie, FALSE, now)
            inserts == c.pass /\ bodyOk /\ ~error
            res == IF ~c.pass THEN c.res
                   ELSE IF ~bodyOk THEN sendErr("BAD_REQUEST", "title and content required", 400)
                   ELSE IF error THEN sendErr("SERVER_ERROR", "writing the post failed", 500)
                   ELSE sendOk(201)
        IN  /\ BodyRead(c.pass, ~bodyOk /\ ~error)
            /\ inserts => budget
            /\ posts' = IF inserts
                        THEN posts \cup {[id |-> serial["posts"],
                                          user_id |-> Get(c.user, "id"), title |-> "a"]}
                        ELSE posts
            /\ serial' = IF inserts THEN [serial EXCEPT !["posts"] = @ + 1] ELSE serial
            /\ last' = Served("POST /api/posts", cookie, c.user, res, c.handled, NoArg, NoArg)
            /\ SessionUnchanged
            /\ UNCHANGED <<qr, stu_details, notices, inquires, leave_requests, merit_logs,
                           stay_status, room_checkins, mreq, sreq>>

\* line 1638: who may edit a post; line 2439: who may delete an inquiry
IsOwnerOrStaff(row, user) == row.user_id = Get(user, "id") \/ Get(user, "role") = "teacher"

IsOwner(row, user) == row.user_id = Get(user, "id")

\* line 1692: who may delete a post
MayDeletePostAnyone(post, user) == TRUE

MayDeletePost(post, user) ==
    ~(Get(user, "role") # "teacher" /\ post.user_id # Get(user, "id"))

\* what the owner routes answer before they write: the id, the lookup by
\* .single(), the permission
OwnerCheck(id, hit, fetchError, allowed, what) ==
    IF id = NaN THEN sendErr("BAD_REQUEST", "valid postId required", 400)
    ELSE IF fetchError \/ hit = {} THEN sendErr("NOT_FOUND", "nothing to " \o what, 404)
    ELSE IF ~allowed THEN sendErr("FORBIDDEN", "only the author may " \o what, 403)
    ELSE NoResponse

StoreOutcomes == {"ok", "fetchError", "error"}

\* PUT /api/posts/:postId: body {title, content, is_secret}
PostEdit(cookies) ==
    \E cookie \in cookies, postId \in RequestIds("posts"), store \in StoreOutcomes :
        LET c == Chain(cookie, FALSE, now)
            hit == RowsById(posts, postId)
            check == OwnerCheck(postId, hit, store = "fetchError",
                                \A post \in hit : IsOwner(post, c.user), "edit")
            res == IF ~c.pass THEN c.res
                   ELSE IF check # NoResponse THEN check
                   ELSE IF store = "error" THEN sendErr("SERVER_ERROR", "editing the post failed", 500)
                   ELSE sendOk(200)
        IN  /\ BodyRead(c.pass, postId = NaN /\ store = "ok")
            /\ posts' = IF res.success
                        THEN {IF r.id = postId THEN [r EXCEPT !.title = "b"] ELSE r : r \in posts}
                        ELSE posts
            /\ last' = Served("PUT /api/posts/:postId", cookie, c.user, res, c.handled,
                              [id |-> postId, store |-> store], NoArg)
            /\ SessionUnchanged
            /\ UNCHANGED <<qr, stu_details, notices, inquires, leave_requests, merit_logs,
                           stay_status, room_checkins, serial, mreq, sreq>>

\* DELETE /api/posts/:postId
PostDelete(cookies) ==
    \E cookie \in cookies, postId \in RequestIds("posts"), store \in StoreOutcomes :
        LET c == Chain(cookie, FALSE, now)
            hit == RowsById(posts, postId)
            check == OwnerCheck(postId, hit, store = "fetchError",
                                \A post \in hit : MayDeletePost(post, c.user), "delete")
            res == IF ~c.pass THEN c.res
                   ELSE IF check # NoResponse THEN check
                   ELSE IF store = "error" THEN sendErr("SERVER_ERROR", "deleting the post failed", 500)
                   ELSE sendOk(200)
        IN  /\ BodyRead(c.pass, postId = NaN /\ store = "ok")
            /\ posts' = IF res.success THEN posts \ hit ELSE posts
            /\ last' = Served("DELETE /api/posts/:postId", cookie, c.user, res, c.handled,
                              [id |-> postId, store |-> store], NoArg)
            /\ SessionUnchanged
            /\ UNCHANGED <<qr, stu_details, notices, inquires, leave_requests, merit_logs,
                           stay_status, room_checkins, serial, mreq, sreq>>

\* DELETE /api/inquires/:postId
InquiryDelete(cookies) ==
    \E cookie \in cookies, postId \in RequestIds("inquires"), store \in StoreOutcomes :
        LET c == Chain(cookie, FALSE, now)
            hit == RowsById(inquires, postId)
            check == OwnerCheck(postId, hit, store = "fetchError",
                                \A post \in hit : IsOwner(post, c.user), "delete")
            res == IF ~c.pass THEN c.res
                   ELSE IF check # NoResponse THEN check
                   ELSE IF store = "error" THEN sendErr("SERVER_ERROR", "deleting the inquiry failed", 500)
                   ELSE sendOk(200)
        IN  /\ BodyRead(c.pass, postId = NaN /\ store = "ok")
            /\ inquires' = IF res.success THEN inquires \ hit ELSE inquires
            /\ last' = Served("DELETE /api/inquires/:postId", cookie, c.user, res, c.handled,
                              [id |-> postId, store |-> store], NoArg)
            /\ SessionUnchanged
            /\ UNCHANGED <<qr, stu_details, notices, posts, leave_requests, merit_logs,
                           stay_status, room_checkins, serial, mreq, sreq>>

BoardBudget == Inserted({"posts", "inquires"}) < MaxBoardRows

NextBoard ==
    \/ PostCreate(SessionCookies, BoardBudget)
    \/ PostEdit(RequestCookies)
    \/ PostDelete(RequestCookies)
    \/ InquiryCreate(SessionCookies, BoardBudget)
    \/ InquiryDelete(RequestCookies)

SpecBoard == InitSchool /\ [][NextBoard]_vars

\* ------------------------------------------------------------- /api/stay

\* getDay() of day d, days counted from 1970-01-01, a Thursday
Weekday(d) == (d + 4) % 7

\* getThisFriday, part_000 lines 19-29, for the local date `today`
getThisFridayNoWrap(today) == today + (5 - Weekday(today))

getThisFriday(today) ==
    LET daysUntilFriday == 5 - Weekday(today)
    IN  today + (IF daysUntilFriday < 0 THEN daysUntilFriday + 7 ELSE daysUntilFriday)

\* .maybeSingle() on the rows a select matched: an error for more than one
\* row, else the row's id (0 for no row)
maybeSingleFindsNothing(hits) == [error |-> FALSE, id |-> 0]

maybeSingle(hits) ==
    [error |-> Cardinality(hits) > 1,
     id |-> IF Cardinality(hits) = 1 THEN (CHOOSE r \in hits : TRUE).id ELSE 0]

StayRoute == "POST /api/stay"

\* POST /api/stay, up to the answer of the select: body {status}.  prior =
\* the submissions answered before this one arrived.
StayFetch(cookies, minutes, budget) ==
    \E cookie \in cookies, status \in {Undef, "OUT", "STAY"}, m \in minutes,
       fetchError \in BOOLEAN :
        LET c == Chain(cookie, FALSE, now)
            user_id == Get(c.user, "id")
            bad == status \notin {"OUT", "STAY"}
            select_date == getThisFriday(LocalDay(m))
            existing == maybeSingle({r \in stay_status :
                                        r.user_id = user_id /\ r.select_date = select_date})
            failed == fetchError \/ existing.error
            waits == c.pass /\ ~bad /\ ~failed
            res == IF ~c.pass THEN c.res
                   ELSE IF bad THEN sendErr("BAD_REQUEST", "status OUT or STAY required", 400)
                   ELSE IF failed THEN sendErr("SERVER_ERROR", "reading the stay status failed", 500)
                   ELSE NoResponse
        IN  /\ BodyRead(c.pass, status = Undef /\ ~fetchError)
            /\ waits => budget
            /\ sreq' = IF waits
                       THEN Append(sreq, [pc |-> "fetched", cookie |-> cookie,
                                          user_id |-> user_id, status |-> status,
                                          select_date |-> select_date,
                                          existing |-> existing.id,
                                          prior |-> {i \in DOMAIN sreq : sreq[i].pc = "done"},
                                          code |-> 0])
                       ELSE sreq
            /\ last' = Served(StayRoute, cookie, c.user, res, c.handled,
                              IF waits THEN [request |-> Len(sreq) + 1] ELSE NoArg, NoArg)
            /\ SessionUnchanged
            /\ UNCHANGED <<qr, tables, serial, mreq>>

\* ... and from there to the response: update by id of the row found, or
\* insert when none was
StayWrite ==
    \E r \in DOMAIN sreq, error \in BOOLEAN :
        LET q == sreq[r]
            res == IF error
                   THEN sendErr("SERVER_ERROR", "saving the stay status failed", 500)
                   ELSE sendOk(200)
            inserts == q.existing = 0 /\ ~error
        IN  /\ q.pc = "fetched"
            /\ stay_status' =
                  IF error THEN stay_status
                  ELSE IF q.existing # 0
                       THEN {IF x.id = q.existing THEN [x EXCEPT !.status = q.status] ELSE x :
                             x \in stay_status}
                       ELSE stay_status \cup {[id |-> serial["stay_status"],
                                               user_id |-> q.user_id,
                                               select_date |-> q.select_date,
                                               status |-> q.status]}
            /\ serial' = IF inserts
                         THEN [serial EXCEPT !["stay_status"] = @ + 1] ELSE serial
            /\ sreq' = [sreq EXCEPT ![r] = [q EXCEPT !.pc = "done", !.code = res.status]]
            /\ last' = Served(StayRoute, q.cookie, q.cookie.claims, res, 1,
                              [request |-> r], NoArg)
            /\ SessionUnchanged
            /\ UNCHANGED <<qr, profiles, stu_details, notices, posts, inquires,
                           leave_requests, merit_logs, room_checkins, mreq>>

\* the first Friday after 1970-01-01
InitStay == School(1)

StayCookies ==
    {NoCookie} \cup {c \in SessionCookies : Get(c.claims, "role") = "student"}

NextStay ==
    \/ StayFetch(StayCookies, {720}, Len(sreq) < MaxStay)
    \/ StayWrite
    \/ NextDay(MaxStayDay)

SpecStay == InitStay /\ [][NextStay]_vars

\* a week of submissions made one after the other, from a Friday to the
\* Friday after
NextWeek ==
    \/ StayFetch(StayCookies, {720},
                 Len(sreq) < MaxStay /\ \A r \in DOMAIN sreq : sreq[r].pc = "done")
    \/ StayWrite
    \/ NextDay(MaxWeekDay)

SpecWeek == InitStay /\ [][NextWeek]_vars

\* ------------------------------------------------------- the codec alone

CodecKeys == {ENCRYPTION_KEY, OtherKey}

CodecIVs == {"iv1", "iv2"}

\* plaintexts: the payloads a code can carry and a text that is no JSON
Plaintexts == {NotJson} \cup {Json(p) : p \in MadePayloads}

\* encrypt(text), under the server's key or with the same cipher under another
CodecEncrypt ==
    \E text \in Plaintexts, key \in CodecKeys, iv \in CodecIVs :
        /\ qr' = EncryptWith(text, key, iv)
        /\ last' = Served("encrypt", NoCookie, NoUser, NoResponse, 0,
                          [text |-> text, key |-> key], qr')
        /\ SessionUnchanged
        /\ UNCHANGED <<tables, serial, mreq, sreq>>

\* a string that did not come out of encrypt is at hand
CodecReceive ==
    /\ qr' = NoColonText
    /\ last' = Served("receive", NoCookie, NoUser, NoResponse, 0, NoArg, qr')
    /\ SessionUnchanged
    /\ UNCHANGED <<tables, serial, mreq, sreq>>

\* decrypt(text) of the string at hand, decipher keyed with key
CodecDecrypt ==
    \E key \in CodecKeys :
        /\ qr # NoQr
        /\ last' = Served("decrypt", NoCookie, NoUser, NoResponse, 0,
                          [text |-> qr, key |-> key], DecryptWith(qr, key))
        /\ SessionUnchanged
        /\ UNCHANGED <<qr, tables, serial, mreq, sreq>>

NextCodec ==
    \/ CodecEncrypt
    \/ CodecReceive
    \/ CodecDecrypt
    \/ Scan(ScanCookies, {420})

SpecCodec == Init /\ [][NextCodec]_vars

\* --------------------------------------------------- the classifier alone

\* lines 1779-1805 at one reading of the clock: totalMinutes = hour * 60 +
\* minute, then check_type
Classify(minutes) ==
    \E totalMinutes \in minutes :
        /\ last' = Served("check_type", NoCookie, NoUser, NoResponse, 0,
                          [totalMinutes |-> totalMinutes],
                          [check_type |-> CheckType(totalMinutes)])
        /\ SessionUnchanged
        /\ UNCHANGED <<qr, tables, serial, mreq, sreq>>

NextClassify == Classify(0 .. MinutesPerDay - 1)

SpecClassify == Init /\ [][NextClassify]_vars

\* ------------------------------------------- the classifier and the scans

\* the clock read minute after minute: the minute after the one classified
\* last, midnight after a request
NextMinute ==
    {m \in {IF last.route = "check_type" THEN last.arg.totalMinutes + 1 ELSE 0} :
        m < MinutesPerDay}

NextScanClock ==
    \/ Classify(NextMinute)
    \/ Scan(ScanCookies, ScanMinutes)

SpecScanClock == Init /\ [][NextScanClock]_vars

\* ------------------------------------------------------------- the lists

\* req.query.limit: absent, a word that is no number, or a numeral
NoLimit == [absent |-> TRUE]

LimitParams ==
    {NoLimit, [word |-> "abc"]} \cup {[numeral |-> n] : n \in {0 - 1, 0, 2, 51}}

\* Number(v) of a query value: nan = no number
JsNumber(v) ==
    IF "numeral" \in DOMAIN v THEN [nan |-> FALSE, n |-> v.numeral]
    ELSE [nan |-> TRUE, n |-> 0]

DefaultLimit == 20
LimitCeiling == 50

\* Math.min(Number(req.query.limit) || 20, 50)
ListLimit(limit) ==
    LET v == JsNumber(limit)
        asked == IF v.nan \/ v.n = 0 THEN DefaultLimit ELSE v.n
    IN  IF asked < LimitCeiling THEN asked ELSE LimitCeiling

\* getSortOption, lines 1174-1178: ascending only for sort=oldest
getSortOption(sort) == [column |-> "created_at", ascending |-> sort = "oldest"]

\* .order(key, {ascending}) on the rows matched; rows with equal keys come in
\* an order the store picks
RECURSIVE OrderBy(_, _, _)
OrderBy(rows, key, ascending) ==
    IF rows = {} THEN <<>>
    ELSE LET first == CHOOSE r \in rows :
                         \A s \in rows : IF ascending THEN r[key] <= s[key]
                                         ELSE r[key] >= s[key]
         IN  <<first>> \o OrderBy(rows \ {first}, key, ascending)

\* .limit(limit): the number of rows that come back of count matched.  What
\* the store does with a limit under 1 is not the server's to say: any
\* number of them.
Returned(count, limit) ==
    IF limit >= 1 THEN {IF limit < count THEN limit ELSE count} ELSE 0 .. count

\* the narrowing of the list handlers: .eq("user_id", id of the caller)
\* unless the caller's role is 'teacher'
OwnerFilterLetsAll(user, rows) == rows

OwnerFilter(user, rows) ==
    IF Get(user, "role") # "teacher"
    THEN {r \in rows : r.user_id = Get(user, "id")}
    ELSE rows

\* .select(columns) of a row; for staff with profiles(*, stu_details(*))
Project(r, columns) == [k \in columns \cap DOMAIN r |-> r[k]]

WithProfile(r) ==
    r @@ [profiles |-> {p @@ [stu_details |-> RowsById(stu_details, p.id)] :
                        p \in RowsById(profiles, r.user_id)}]

Projected(rows, columns, joined) ==
    [i \in DOMAIN rows |-> IF joined THEN WithProfile(Project(rows[i], columns \cup {"user_id"}))
                           ELSE Project(rows[i], columns)]

\* the answer of a list handler: 500 on a store error, else the rows
ListRes(error, what) ==
    IF error THEN sendErr("SERVER_ERROR", what, 500) ELSE sendOk(200)

\* created_at grows with the serial id
ByCreation == "id"

\* GET /api/notices (no authentication): ?sort, ?limit
ListNotices(limits) ==
    \E limit \in limits, sort \in {Undef, "oldest"}, error \in BOOLEAN :
        LET handed == ListLimit(limit)
            ordered == OrderBy(notices, ByCreation, getSortOption(sort).ascending)
            res == ListRes(error, "listing the notices failed")
        IN  \E n \in Returned(Len(ordered), handed) :
              /\ last' = Served("GET /api/notices", NoCookie, NoUser, res, 1,
                                [limit |-> limit, sort |-> sort],
                                IF error THEN [limit |-> handed]
                                ELSE [limit |-> handed, data |-> SubSeq(ordered, 1, n)])
              /\ SessionUnchanged
              /\ UNCHANGED <<qr, tables, serial, mreq, sreq>>

\* GET /api/posts (no authentication): ?sort, ?limit
ListPosts(limits) ==
    \E limit \in limits, sort \in {Undef, "oldest"}, error \in BOOLEAN :
        LET handed == ListLimit(limit)
            ordered == OrderBy(posts, ByCreation, getSortOption(sort).ascending)
            res == ListRes(error, "listing the posts failed")
        IN  \E n \in Returned(Len(ordered), handed) :
              /\ last' = Served("GET /api/posts", NoCookie, NoUser, res, 1,
                                [limit |-> limit, sort |-> sort],
                                IF error THEN [limit |-> handed]
                                ELSE [limit |-> handed, data |-> SubSeq(ordered, 1, n)])
              /\ SessionUnchanged
              /\ UNCHANGED <<qr, tables, serial, mreq, sreq>>

\* GET /api/posts/my: the caller's posts
ListMyPosts(cookies, limits) ==
    \E cookie \in cookies, limit \in limits, sort \in {Undef, "oldest"},
       error \in BOOLEAN :
        LET c == Chain(cookie, FALSE, now)
            handed == ListLimit(limit)
            matched == {r \in posts : r.user_id = Get(c.user, "id")}
            ordered == OrderBy(matched, ByCreation, getSortOption(sort).ascending)
            res == IF ~c.pass THEN c.res ELSE ListRes(error, "listing my posts failed")
        IN  /\ BodyRead(c.pass, limit = NoLimit /\ sort = Undef /\ ~error)
            /\ \E n \in Returned(Len(ordered), handed) :
                 last' = Served("GET /api/posts/my", cookie, c.user, res, c.handled,
                                [limit |-> limit, sort |-> sort],
                                IF ~c.pass THEN NoArg
                                ELSE IF error THEN [limit |-> handed]
                                ELSE [limit |-> handed, data |-> SubSeq(ordered, 1, n)])
            /\ SessionUnchanged
            /\ UNCHANGED <<qr, tables, serial, mreq, sreq>>

\* GET /api/inquires: ?sort, ?limit; own rows, or all for staff
ListInquiries(cookies, limits) ==
    \E cookie \in cookies, limit \in limits, sort \in {Undef, "oldest"},
       error \in BOOLEAN :
        LET c == Chain(cookie, FALSE, now)
            handed == ListLimit(limit)
            matched == OwnerFilter(c.user, inquires)
            ordered == OrderBy(matched, ByCreation, getSortOption(sort).ascending)
            res == IF ~c.pass THEN c.res ELSE ListRes(error, "listing the inquiries failed")
        IN  /\ BodyRead(c.pass, limit = NoLimit /\ sort = Undef /\ ~error)
            /\ \E n \in Returned(Len(ordered), handed) :
                 last' = Served("GET /api/inquires", cookie, c.user, res, c.handled,
                                [limit |-> limit, sort |-> sort],
                                IF ~c.pass THEN NoArg
                                ELSE IF error THEN [limit |-> handed]
                                ELSE [limit |-> handed,
                                      data |-> Projected(SubSeq(ordered, 1, n),
                                                         {"id", "reply", "user_id"}, FALSE)])
            /\ SessionUnchanged
            /\ UNCHANGED <<qr, tables, serial, mreq, sreq>>

\* GET /api/leave: ?limit; own rows, or all with their profiles for staff
ListLeave(cookies, limits) ==
    \E cookie \in cookies, limit \in limits, error \in BOOLEAN :
        LET c == Chain(cookie, FALSE, now)
            handed == ListLimit(limit)
            matched == OwnerFilter(c.user, leave_requests)
            ordered == OrderBy(matched, ByCreation, FALSE)
            res == IF ~c.pass THEN c.res ELSE ListRes(error, "listing the leave requests failed")
        IN  /\ BodyRead(c.pass, limit = NoLimit /\ ~error)
            /\ \E n \in Returned(Len(ordered), handed) :
                 last' = Served("GET /api/leave", cookie, c.user, res, c.handled,
                                [limit |-> limit],
                                IF ~c.pass THEN NoArg
                                ELSE IF error THEN [limit |-> handed]
                                ELSE [limit |-> handed,
                                      data |-> Projected(SubSeq(ordered, 1, n),
                                                         {"id", "user_id", "status", "approved_at"},
                                                         Get(c.user, "role") = "teacher")])
            /\ SessionUnchanged
            /\ UNCHANGED <<qr, tables, serial, mreq, sreq>>

\* GET /api/stay: ?date.  The date filter names the column 'seletd_date',
\* which the table does not have: the store answers it with an error.
ListStay(cookies) ==
    \E cookie \in cookies, date \in {Undef, "a-date"}, error \in BOOLEAN :
        LET c == Chain(cookie, FALSE, now)
            staff == Get(c.user, "role") = "teacher"
            matched == OwnerFilter(c.user, stay_status)
            ordered == OrderBy(matched, "select_date", FALSE)
            failed == error \/ ~Falsy(date)
            res == IF ~c.pass THEN c.res ELSE ListRes(failed, "reading the stay status failed")
        IN  /\ BodyRead(c.pass, date = Undef /\ ~error)
            /\ last' = Served("GET /api/stay", cookie, c.user, res, c.handled,
                              [date |-> date],
                              IF ~c.pass \/ failed THEN NoArg
                              ELSE [data |-> IF staff
                                             THEN [i \in DOMAIN ordered |->
                                                   [k \in {"id", "select_date", "status", "profiles"} |->
                                                    WithProfile(ordered[i])[k]]]
                                             ELSE Projected(ordered, {"id", "select_date", "status"},
                                                            FALSE)])
            /\ SessionUnchanged
            /\ UNCHANGED <<qr, tables, serial, mreq, sreq>>

\* GET /api/roomcheckins/today, the clock read at UTC minute m.  On a store
\* error data is null and data.map throws: the catch answers 500 as well.
ListToday(cookies, minutes) ==
    \E cookie \in cookies, m \in minutes, error \in BOOLEAN :
        LET c == Chain(cookie, FALSE, now)
            checkDate == LocalDay(m)
            matched == {r \in OwnerFilter(c.user, room_checkins) : r.check_date = checkDate}
            ordered == OrderBy(matched, ByCreation, TRUE)
            res == IF ~c.pass THEN c.res ELSE ListRes(error, "reading today's check-ins failed")
        IN  /\ BodyRead(c.pass, ~error)
            /\ last' = Served("GET /api/roomcheckins/today", cookie, c.user, res, c.handled,
                              NoArg,
                              IF ~c.pass \/ error THEN NoArg
                              ELSE [data |-> [i \in DOMAIN ordered |->
                                              (IF Get(c.user, "role") = "teacher"
                                               THEN WithProfile(ordered[i]) ELSE ordered[i])
                                              @@ [isCheckIn |-> TRUE]]])
            /\ SessionUnchanged
            /\ UNCHANGED <<qr, tables, serial, mreq, sreq>>

\* The accounts whose rows the lists are read over: two students and a
\* teacher, all signed up.
ListOwners == {"g-stu", "g-anon", "g-teacher"}

ListProfiles == SchoolProfiles \cup {[id |-> "g-anon", role |-> "student"]}

\* who made the i-th request of each of the writing routes: up to
\* MaxListRows requests a route
Populations == UNION {[1 .. n -> ListOwners] : n \in 0 .. MaxListRows}

\* the second Friday after the first
ListDay == 15

\* The store as the writing routes leave it when the accounts of w, one
\* after the other, each posted once at every one of them (a notice by the
\* teacher each time); the check-in of `old` was made the day before.
InitLists ==
    \E w \in Populations :
      \E old \in {{}, DOMAIN w \cap {1}} :
        /\ now = ListDay
        /\ tz = 0
        /\ qr = NoQr
        /\ profiles = ListProfiles
        /\ stu_details = SchoolDetails \cup {[id |-> "g-anon", plus_score |-> 0, minus_score |-> 0]}
        /\ jar = NoCookie
        /\ minted = NoArg
        /\ last = Served("none", NoCookie, NoUser, NoResponse, 0, NoArg, NoArg)
        /\ notices = {[id |-> i, title |-> "a", author |-> "g-teacher"] : i \in DOMAIN w}
        /\ posts = {[id |-> i, user_id |-> w[i], title |-> "a"] : i \in DOMAIN w}
        /\ inquires = {[id |-> i, user_id |-> w[i], reply |-> Null] : i \in DOMAIN w}
        /\ leave_requests = {[id |-> i, user_id |-> w[i], status |-> Pending,
                              approved_at |-> Null] : i \in DOMAIN w}
        /\ merit_logs = {}
        /\ stay_status = {[id |-> i, user_id |-> w[i],
                           select_date |-> getThisFriday(now) - 7 * (Len(w) - i),
                           status |-> "STAY"] : i \in DOMAIN w}
        /\ room_checkins = {[id |-> i, user_id |-> w[i],
                             check_date |-> IF i \in old THEN now - 1 ELSE now,
                             check_type |-> CheckType(LocalMinute(420))] : i \in DOMAIN w}
        /\ serial = [t \in SerialTables |-> IF t = "merit_logs" THEN 1 ELSE Len(w) + 1]
        /\ mreq = NoRequests
        /\ sreq = NoRequests

\* the limits the owner-scoped lists are read with
FewLimits == {NoLimit, [numeral |-> 0 - 1], [numeral |-> 1]}

NextLists ==
    \/ ListInquiries(RequestCookies, FewLimits)
    \/ ListLeave(RequestCookies, FewLimits)
    \/ ListStay(RequestCookies)
    \/ ListToday(RequestCookies, {720})

SpecLists == InitLists /\ [][NextLists]_vars

\* one session of each role
OneOfEachRole ==
    {c \in SessionCookies : Get(c.claims, "id") \in {"g-stu", "g-teacher"}}

NextLimits ==
    \/ ListNotices(LimitParams)
    \/ ListPosts(LimitParams)
    \/ ListMyPosts({NoCookie} \cup StudentCookies, LimitParams)
    \/ ListInquiries({NoCookie} \cup OneOfEachRole, LimitParams)
    \/ ListLeave(OneOfEachRole, LimitParams)

SpecLimits == InitLists /\ [][NextLimits]_vars

\* ------------------------------------------------------- lookups by id

\* what the store makes of .eq("id", id).single(): an answer, or a failure
\* of its own
LookupOutcomes == {"ok", "error"}

\* GET /api/notices/:noticeId (no authentication)
NoticeGet ==
    \E noticeId \in RequestIds("notices"), store \in LookupOutcomes :
        LET hit == RowsById(notices, noticeId)
            res == IF noticeId = NaN THEN sendErr("BAD_REQUEST", "valid noticeId required", 400)
                   ELSE IF store = "error" \/ hit = {}
                        THEN sendErr("NOT_FOUND", "no such notice", 404)
                        ELSE sendOk(200)
        IN  /\ last' = Served("GET /api/notices/:noticeId", NoCookie, NoUser, res, 1,
                              [id |-> noticeId, store |-> store],
                              IF res.success THEN [data |-> hit] ELSE NoArg)
            /\ SessionUnchanged
            /\ UNCHANGED <<qr, tables, serial, mreq, sreq>>

\* GET /api/inquires/:postId: the author's or staff's to read
InquiryGet(cookies) ==
    \E cookie \in cookies, postId \in RequestIds("inquires"), store \in LookupOutcomes :
        LET c == Chain(cookie, FALSE, now)
            hit == RowsById(inquires, postId)
            res == IF ~c.pass THEN c.res
                   ELSE IF postId = NaN THEN sendErr("BAD_REQUEST", "valid postId required", 400)
                   ELSE IF store = "error" \/ hit = {}
                        THEN sendErr("NOT_FOUND", "no such inquiry", 404)
                        ELSE IF /\ \E r \in hit : r.user_id # Get(c.user, "id")
                                /\ Get(c.user, "role") # "teacher"
                             THEN sendErr("FORBIDDEN", "only the author or staff may read it", 403)
                             ELSE sendOk(200)
        IN  /\ BodyRead(c.pass, postId = NaN /\ store = "ok")
            /\ last' = Served("GET /api/inquires/:postId", cookie, c.user, res, c.handled,
                              IF c.pass THEN [id |-> postId, store |-> store] ELSE NoArg,
                              IF res.success THEN [data |-> hit] ELSE NoArg)
            /\ SessionUnchanged
            /\ UNCHANGED <<qr, tables, serial, mreq, sreq>>

NextLookup ==
    \/ NoticeGet
    \/ InquiryGet(RequestCookies)

SpecLookup == InitLists /\ [][NextLookup]_vars

\* --------------------------------------------- scans and awards together

\* staff sessions
TeacherCookies == {c \in SessionCookies : Get(c.claims, "role") = "teacher"}

NextAppend ==
    \/ Scan(ScanCookies, {420})
    \/ MeritInsert(TeacherCookies, {"g-stu"}, {1}, {"plus", "bonus"}, MeritBudget)
    \/ MeritFetch
    \/ MeritUpdate

SpecAppend == InitSchool /\ [][NextAppend]_vars

NextStaff ==
    \/ NoticeCreate
    \/ NoticeEdit
    \/ NoticeDelete
    \/ LeaveCreate(StudentCookies, StaffBudget)
    \/ LeaveCheck
    \/ InquiryCreate(StudentCookies, StaffBudget)
    \/ InquiryReply
    \/ QrIssue(RequestCookies)
    \/ MeritInsert(RequestCookies, {"g-stu", "g-nobody"}, {0, 1}, {Undef, "plus"}, StaffBudget)
    \/ MeritFetch
    \/ MeritUpdate

SpecStaff == InitSchool /\ [][NextStaff]_vars

\* ------------------------------------------------------------------ claims

AuthRoutes == {"GET /api/auth/me"}

KeyOf(cookie) == IF cookie.kind = "jwt" THEN cookie.key ELSE "no key"

ExpiredAt(cookie, t) == cookie.kind = "jwt" /\ t >= cookie.claims.exp

\* C2: authenticateToken answers 401 'Unauthorized' without calling the
\* handler when the access_token cookie is absent, 403 'Forbidden' without
\* calling the handler when the token is malformed, signed with another key
\* or expired, and otherwise sets req.user to the token's claims and calls
\* the handler exactly once.
AuthenticateTokenContract ==
    last.route \in AuthRoutes =>
        /\ last.cookie = NoCookie =>
              last.status = 401 /\ last.code = "Unauthorized" /\ last.handled = 0
        /\ (last.cookie # NoCookie /\
            (KeyOf(last.cookie) # JWT_SECRET \/ ExpiredAt(last.cookie, last.at))) =>
              last.status = 403 /\ last.code = "Forbidden" /\ last.handled = 0
        /\ (KeyOf(last.cookie) = JWT_SECRET /\ ~ExpiredAt(last.cookie, last.at)) =>
              last.handled = 1 /\ last.user = last.cookie.claims
        /\ last.handled \in {0, 1}
        /\ last.handled = 0 => last.user = NoUser

\* an expired session token was refused with 403
ExpiredTokenRefused ==
    /\ last.route \in AuthRoutes
    /\ KeyOf(last.cookie) = JWT_SECRET
    /\ ExpiredAt(last.cookie, last.at)
    /\ last.status = 403

IdentityKeys == {"id", "role", "stu_num"}

\* the handler ran for the cookie login set from the claim set `minted`
RanWithLoginCookie ==
    /\ last.route \in AuthRoutes
    /\ last.cookie = jar
    /\ jar # NoCookie
    /\ last.handled = 1

\* C3, as stated: the identity attached is exactly the claim set given to
\* generateToken, with nothing added, removed or altered.
AttachedClaimsAreExactlyThoseIssued ==
    RanWithLoginCookie =>
        /\ \A k \in IdentityKeys : Get(last.user, k) = Get(minted, k)
        /\ DOMAIN last.user \subseteq IdentityKeys

\* C3, amended: id, role and stu_num are attached as given to generateToken,
\* the only additions are the iat, exp and iss that signing puts in the
\* token, and a token signed with another key is refused.
AttachedClaimsAreThoseIssuedPlusRegistered ==
    /\ RanWithLoginCookie =>
          /\ \A k \in IdentityKeys : Get(last.user, k) = Get(minted, k)
          /\ DOMAIN last.user \ IdentityKeys = {"iat", "exp", "iss"}
          /\ last.user.exp = last.user.iat + TokenLifeDays
          /\ last.user.iss = "domice"
    /\ (last.route \in AuthRoutes /\ last.cookie.kind = "jwt" /\ last.cookie.key # JWT_SECRET) =>
          last.status = 403 /\ last.handled = 0

\* a handler ran with the identity of a token login issued
LoginTokenAccepted ==
    /\ RanWithLoginCookie
    /\ Get(last.user, "role") = "student"
    /\ last.at > last.user.iat

\* --- the check-in claims

\* the payload of a scanned text that the server's key opens as JSON
OpensAsPayload(qrData) ==
    /\ qrData.kind = "qr"
    /\ qrData.ct.key = ENCRYPTION_KEY
    /\ qrData.ct.iv = qrData.iv
    /\ qrData.ct.text.json

PayloadOf(qrData) == qrData.ct.text.value

ScanHandled(l) == l.route = "POST /api/roomcheckins" /\ l.handled = 1

\* C9: a scan whose payload decrypts but carries a date other than the
\* server's current (UTC) date never succeeds and inserts no room_checkins
\* row, whatever the payload's type marker and nonce.
StaleDateNeverAccepted ==
    [][(/\ ScanHandled(last')
        /\ OpensAsPayload(last'.arg.qrData)
        /\ PayloadOf(last'.arg.qrData).date # last'.at)
       => (~last'.success /\ last'.status # 201 /\ room_checkins' = room_checkins)]_vars

\* a payload with another type marker and a stale date was turned down
StaleOtherTypeRefused ==
    /\ ScanHandled(last)
    /\ OpensAsPayload(last.arg.qrData)
    /\ PayloadOf(last.arg.qrData).date = last.at + 1
    /\ PayloadOf(last.arg.qrData).type # QR_TYPE
    /\ ~last.success

\* C10: a scan by an authenticated user of a correctly encrypted DOMICE
\* payload dated the day before the server's current date is answered 403
\* with the expired-code error and inserts no room_checkins row.
YesterdaysCodeIsExpired ==
    [][(/\ ScanHandled(last')
        /\ OpensAsPayload(last'.arg.qrData)
        /\ PayloadOf(last'.arg.qrData).type = QR_TYPE
        /\ PayloadOf(last'.arg.qrData).date = last'.at - 1)
       => (/\ last'.status = 403
           /\ last'.code = "Forbidden"
           /\ last'.message = "expired QR code"
           /\ room_checkins' = room_checkins)]_vars

\* the code the staff screen showed yesterday was scanned today and refused
YesterdaysIssuedCodeRefused ==
    /\ ScanHandled(last)
    /\ qr # NoQr
    /\ last.arg.qrData = qr
    /\ PayloadOf(qr).date = last.at - 1
    /\ last.status = 403
    /\ room_checkins # {}

\* the step serves a scan of a payload that decrypts and parses and whose
\* type marker is not 'DOMICE'
ScansOtherType ==
    /\ ScanHandled(last')
    /\ OpensAsPayload(last'.arg.qrData)
    /\ PayloadOf(last'.arg.qrData).type # QR_TYPE

\* C11 as stated: such a scan gets the forbidden (403) outcome of a stale
\* date and writes no row.
OtherTypeIsForbidden ==
    [][ScansOtherType
          => (/\ last'.status = 403
              /\ last'.code = "Forbidden"
              /\ room_checkins' = room_checkins)]_vars

\* C11: a scan whose payload decrypts and parses but whose type marker is not
\* 'DOMICE' is answered 401 Unauthorized with the invalid-code error, whatever
\* its date, and not the 403 of a stale date; it writes no row.
OtherTypeIsUnauthorized ==
    [][ScansOtherType
          => (/\ last'.status = 401
              /\ last'.code = "Unauthorized"
              /\ last'.message = "invalid QR code"
              /\ ~last'.success
              /\ room_checkins' = room_checkins)]_vars

\* a payload dated today with another type marker was turned down
TodaysOtherTypeRefused ==
    /\ ScanHandled(last)
    /\ OpensAsPayload(last.arg.qrData)
    /\ PayloadOf(last.arg.qrData).type # QR_TYPE
    /\ PayloadOf(last.arg.qrData).date = last.at
    /\ last.status = 401

\* ------------------------------------------------------ login and sign-up

\* the step answers a login with success; the identity is the token's id
LoginAnswered == last'.route = "POST /api/auth/login" /\ last'.success

LoginId == last'.out.cookie.claims.id

\* the profile row of an identity, and whether a sign-up for it was answered
\* 201: the row is a teacher's or has its stu_details row
StoredRole(id) == (CHOOSE p \in RowsById(profiles, id) : TRUE).role

SignedUp(id) ==
    /\ RowsById(profiles, id) # {}
    /\ StoredRole(id) = "teacher" \/ RowsById(stu_details, id) # {}

\* the role login infers from the provider's answer for the identity
InferredRole(id) == DeriveIdentity(CHOOSE g \in ProviderAnswers : g.id = id).role

OnlyStaffEmailGetsTeacherToken ==
    (last.route = "POST /api/auth/login" /\ last.success
     /\ Get(last.out.cookie.claims, "role") = "teacher")
        => \A g \in ProviderAnswers : g.id = last.out.cookie.claims.id => g.email = StaffEmail

\* ------------------------------------------------------------------ codec

CategoryOrder == <<"EARLY", "AFTER_SCHOOL", "AFTER_DINNER", "RETURN_8PM", "LATE">>

CategoryStarts == {AFTER_SCHOOL_START, AFTER_DINNER_START, RETURN_8PM_START, LATE_START}

\* C13: every minute of the day 0..1439 is given exactly one of the five
\* categories, the one after as many categories as there are starting minutes
\* at or before it: a starting minute belongs to the later category, the
\* minute before it to the one just before (959 EARLY, 960 AFTER_SCHOOL).
ClassifierPartitionsDay ==
    last.route = "check_type"
        => LET m == last.arg.totalMinutes
               t == last.out.check_type
           IN  /\ \E i \in DOMAIN CategoryOrder : t = CategoryOrder[i]
               /\ t = CategoryOrder[Cardinality({b \in CategoryStarts : b <= m}) + 1]
               /\ m = 959 => t = "EARLY"
               /\ m = 960 => t = "AFTER_SCHOOL"

BoundaryMinuteClassified ==
    /\ last.route = "check_type"
    /\ last.arg.totalMinutes = AFTER_SCHOOL_START
    /\ last.out.check_type = "AFTER_SCHOOL"

\* ------------------------------------------------------- staff-only routes

StaffRoutes ==
    {"POST /api/notices", "PUT /api/notices/:noticeId", "DELETE /api/notices/:noticeId",
     MeritRoute, "POST /api/leave/check", "GET /api/roomcheckins/qr",
     "POST /api/inquires/:postId/reply"}

\* the step serves a request to a staff-only route whose identity is not a
\* teacher's
StopsNonTeacher(status) ==
    (last'.route \in StaffRoutes /\ Get(last'.user, "role") # "teacher")
        => /\ last'.handled = 0
           /\ ~last'.success
           /\ last'.status = status
           /\ tables' = tables
           /\ qr' = qr
           /\ mreq' = mreq

PassesTeacher ==
    (last'.route \in StaffRoutes /\ Get(last'.user, "role") = "teacher")
        => /\ last'.handled = 1
           /\ last'.user = authenticateToken(last'.cookie, now).user

\* C1 as stated: every request to a staff-only route that is not a teacher's,
\* one without identity included, is answered 403 and changes nothing.
NonTeacherAlwaysGets403 == [][StopsNonTeacher(403) /\ PassesTeacher]_vars

\* C1: a request to a staff-only route whose identity is not a teacher's never
\* reaches the handler and changes nothing; it is answered 401 when it carries
\* no cookie and 403 otherwise; a teacher's request reaches the handler with
\* the identity authenticateToken attached.
NonTeacherNeverReachesStaffHandler ==
    [][StopsNonTeacher(IF last'.cookie = NoCookie THEN 401 ELSE 403) /\ PassesTeacher]_vars

StudentStoppedAtGate ==
    /\ last.route = "DELETE /api/notices/:noticeId"
    /\ Get(last.user, "role") = "student"
    /\ last.status = 403
    /\ last.code = "FORBIDDEN"
    /\ last.handled = 0
    /\ notices # {}

\* C4: a leave request whose status is approved or rejected keeps that status
\* in every later step.
DecidedStatusIsFinal ==
    [][\A r \in leave_requests :
          r.status \in {Approved, Rejected}
              => \A r2 \in leave_requests' : r2.id = r.id => r2.status = r.status]_vars

\* ------------------------------------------------------------ merit awards

\* two awards, and no third, both to one student and both answered 201,
\* that read the same stored totals: each read before the other wrote
TwoAwardsOverlapped ==
    /\ Len(mreq) = 2
    /\ \A r \in 1 .. 2 : mreq[r].pc = "done" /\ mreq[r].status = 201
    /\ mreq[1].user_id = mreq[2].user_id
    /\ mreq[1].plus = mreq[2].plus
    /\ mreq[1].minus = mreq[2].minus

\* the totals stored for the student are the totals award r read plus its
\* own score, and nothing of the other award
TotalsReflectOnly(r) ==
    \E d \in stu_details :
        /\ d.id = mreq[r].user_id
        /\ d.plus_score = mreq[r].plus + (IF mreq[r].type = "plus" THEN mreq[r].score ELSE 0)
        /\ d.minus_score = mreq[r].minus + (IF mreq[r].type = "minus" THEN mreq[r].score ELSE 0)

\* C6: when two awards to one student overlap so that both read the stored
\* totals before either writes, and both are answered 201, both log rows are
\* in merit_logs and the stored totals reflect exactly one of the two awards.
OverlappingAwardsLoseOne ==
    TwoAwardsOverlapped
        => /\ \E l1, l2 \in merit_logs :
                l1.id # l2.id /\ l1.user_id = mreq[1].user_id /\ l2.user_id = mreq[1].user_id
           /\ TotalsReflectOnly(1) \/ TotalsReflectOnly(2)

LostUpdate ==
    /\ TwoAwardsOverlapped
    /\ mreq[1].type = "plus" /\ mreq[2].type = "plus"
    /\ mreq[1].score = 1 /\ mreq[2].score = 2
    /\ \E l1, l2 \in merit_logs : l1.score = 1 /\ l2.score = 2
    /\ \E d \in stu_details : d.id = mreq[1].user_id /\ d.plus_score = mreq[1].plus + 1

\* ----------------------------------------------------------- stay status

\* C7 as stated: stay_status holds at most one row per (user_id, select_date).
OneStayRowPerUserDate ==
    \A r1, r2 \in stay_status :
        (r1.user_id = r2.user_id /\ r1.select_date = r2.select_date) => r1.id = r2.id

\* j is the user's second submission, i the first: the same status for the
\* same date, i answered 200 before j arrived, and the user made no other
SecondOfTwo(i, j) ==
    /\ i \in sreq[j].prior
    /\ sreq[i].code = 200
    /\ sreq[i].user_id = sreq[j].user_id
    /\ sreq[i].status = sreq[j].status
    /\ sreq[i].select_date = sreq[j].select_date
    /\ \A k \in DOMAIN sreq : sreq[k].user_id = sreq[j].user_id => k \in {i, j}

\* C8: the second of two identical submissions in succession finds the row of
\* the first and takes the update branch, and from its arrival on the store
\* holds for that (user, date) exactly that row, with that status.
SecondSubmissionUpdates ==
    \A i, j \in DOMAIN sreq :
        SecondOfTwo(i, j)
            => /\ sreq[j].existing # 0
               /\ {r \in stay_status : r.user_id = sreq[j].user_id
                                       /\ r.select_date = sreq[j].select_date}
                    = {[id |-> sreq[j].existing, user_id |-> sreq[j].user_id,
                        select_date |-> sreq[j].select_date, status |-> sreq[j].status]}

SecondSubmissionAnswered ==
    \E i, j \in DOMAIN sreq :
        /\ SecondOfTwo(i, j)
        /\ sreq[j].pc = "done"
        /\ sreq[j].code = 200
        /\ sreq[j].existing # 0
        /\ Cardinality(stay_status) = 1

\* ------------------------------------------------------------ owner routes

\* the step serves, past authenticateToken, a request of a caller who is no
\* teacher for a row of `table` that another user wrote
ByNonOwner(route, table) ==
    /\ last'.route = route
    /\ last'.handled = 1
    /\ Get(last'.user, "role") # "teacher"
    /\ \E row \in table : row.id = last'.arg.id /\ row.user_id # Get(last'.user, "id")

OnAnothersRow ==
    \/ ByNonOwner("PUT /api/posts/:postId", posts)
    \/ ByNonOwner("DELETE /api/posts/:postId", posts)
    \/ ByNonOwner("DELETE /api/inquires/:postId", inquires)

ListedTable(route) ==
    CASE route = "GET /api/inquires" -> inquires
      [] route = "GET /api/leave" -> leave_requests
      [] route = "GET /api/stay" -> stay_status
      [] route = "GET /api/roomcheckins/today" -> room_checkins

OwnerScopedRoutes ==
    {"GET /api/inquires", "GET /api/leave", "GET /api/stay", "GET /api/roomcheckins/today"}

\* the stored rows a list response carries
ListedRows(l) ==
    {s \in ListedTable(l.route) : \E i \in DOMAIN l.out.data : l.out.data[i].id = s.id}

ListAnswered(l) == l.route \in OwnerScopedRoutes /\ l.success

\* C16: a response of GET /api/inquires, GET /api/leave, GET /api/stay or
\* GET /api/roomcheckins/today to a caller whose role is not 'teacher' carries
\* only rows whose user_id is the caller's id, whatever the tables hold and
\* whatever the query says: a row of another user is only ever in a response
\* to a caller with role 'teacher'.
OwnRowsOnly ==
    ListAnswered(last)
    => \A s \in ListedRows(last) :
          s.user_id # last.user.id => Get(last.user, "role") = "teacher"

\* a student was listed own rows of a table that holds another user's too
OthersRowsWithheld ==
    /\ ListAnswered(last)
    /\ Get(last.user, "role") = "student"
    /\ ListedRows(last) # {}
    /\ \E s \in ListedTable(last.route) : s.user_id # last.user.id

LimitRoutes ==
    {"GET /api/notices", "GET /api/posts", "GET /api/posts/my", "GET /api/inquires",
     "GET /api/leave"}

\* the handler of a list with a limit parameter ran and called the store
LimitHanded(l) == l.route \in LimitRoutes /\ "limit" \in DOMAIN l.out

\* the parameter as a number, when it is one
IsNumeral(v) == "numeral" \in DOMAIN v

DefaultsApply(v) == ~IsNumeral(v) \/ v.numeral = 0

\* C18: in every list handler with a limit parameter the limit handed to the
\* store is from 1 to 50, and is 20 when the parameter is absent, non-numeric
\* or 0.
HandedLimitFromOneToFifty ==
    LimitHanded(last)
    => /\ last.out.limit \in 1 .. LimitCeiling
       /\ DefaultsApply(last.arg.limit) => last.out.limit = DefaultLimit

\* ------------------------------------------------ claims: awards that fail

\* award r is answered in this step, and not with 201
AwardFails(r) ==
    /\ mreq[r].pc # "done"
    /\ mreq'[r].pc = "done"
    /\ mreq'[r].status # 201

\* the log row award r appended: the r-th row of merit_logs
LogRowOf(r, logs) ==
    {l \in logs : l.id = r /\ l.user_id = mreq[r].user_id /\ l.score = mreq[r].score}

\* C17: when POST /api/admin/meritlogs fails after its log row was appended
\* (the profile lookup finds no row or fails, or the update of the totals
\* errors), the answer is 404 or 500, the appended row is still in merit_logs
\* and the stored totals are as they were: nothing is rolled back.
FailedAwardLeavesLogOnly ==
    [][\A r \in DOMAIN mreq :
         AwardFails(r)
         => /\ mreq'[r].status \in {404, 500}
            /\ last'.status = mreq'[r].status
            /\ LogRowOf(r, merit_logs') # {}
            /\ merit_logs' = merit_logs
            /\ stu_details' = stu_details]_vars

\* an award to an id without a profile was answered 404 and its log row is
\* in the table, the totals of the student untouched
UnknownStudentLogged ==
    \E r \in DOMAIN mreq :
        /\ mreq[r].pc = "done"
        /\ mreq[r].status = 404
        /\ RowsById(profiles, mreq[r].user_id) = {}
        /\ LogRowOf(r, merit_logs) # {}
        /\ \A d \in stu_details : d.plus_score = 0 /\ d.minus_score = 0

\* --------------------------------------------------- claims: lookups by id

LookupRoutes == {"GET /api/notices/:noticeId", "GET /api/inquires/:postId"}

LookedUpTable(route) ==
    IF route = "GET /api/notices/:noticeId" THEN notices ELSE inquires

\* the handler of a lookup by id ran and asked the store for row id
LookedUp(l) == l.route \in LookupRoutes /\ "store" \in DOMAIN l.arg /\ l.arg.id # NaN

\* C19: in a handler that looks a row up by id, a lookup that returns no row
\* is answered 404 NOT_FOUND, and a store-level error on that call is answered
\* 500 SERVER_ERROR, never 404 and never a success.
NoRowIs404StoreErrorIs500 ==
    LookedUp(last)
    => /\ (last.arg.store = "ok" /\ RowsById(LookedUpTable(last.route), last.arg.id) = {})
          => (last.status = 404 /\ last.code = "NOT_FOUND")
       /\ last.arg.store = "error"
          => (last.status = 500 /\ last.code = "SERVER_ERROR")

\* ------------------------------------------------- claims: append-only logs

\* a scan is answered 201 in this step
ScanSucceeds ==
    last'.route = "POST /api/roomcheckins" /\ last'.status = 201 /\ now' = now

\* the insert of an award is answered without error in this step
AwardLogged == Len(mreq') = Len(mreq) + 1

ErrorTaxonomy == {"BAD_REQUEST", "UNAUTHORIZED", "FORBIDDEN", "NOT_FOUND", "SERVER_ERROR"}

\* the request served last was answered with an error envelope
ErrorAnswered(l) == l.route # "none" /\ l.status # 0 /\ ~l.success

\* C21: every error envelope a handler or middleware sends carries a code
\* that is exactly one of BAD_REQUEST, UNAUTHORIZED, FORBIDDEN, NOT_FOUND and
\* SERVER_ERROR.
ErrorCodesInTaxonomy == ErrorAnswered(last) => last.code \in ErrorTaxonomy

\* ------------------------------------------- claims: the check-in category

\* the category the windows of the day give minute m
WindowOf(m) ==
    IF m \in 0 .. 959 THEN "EARLY"
    ELSE IF m \in 960 .. 989 THEN "AFTER_SCHOOL"
    ELSE IF m \in 990 .. 1099 THEN "AFTER_DINNER"
    ELSE IF m \in 1100 .. 1229 THEN "RETURN_8PM"
    ELSE "LATE"

\* the place of a category in the order of the day
RankOf(t) == CHOOSE i \in DOMAIN CategoryOrder : CategoryOrder[i] = t

\* the rows a scan answered 201 in this step added
RowsScanned == IF ScanSucceeds THEN room_checkins' \ room_checkins ELSE {}

AwardsOneAtATime ==
    /\ Len(mreq) > 0
    /\ \A r \in DOMAIN mreq : mreq[r].pc = "done" /\ mreq[r].status = 201
    /\ mreq[1].plus = 0 /\ mreq[1].minus = 0
    /\ \A r \in DOMAIN mreq :
          r > 1 => /\ mreq[r].plus = mreq[r - 1].plus
                                     + (IF mreq[r - 1].type = "plus" THEN mreq[r - 1].score ELSE 0)
                   /\ mreq[r].minus = mreq[r - 1].minus
                                      + (IF mreq[r - 1].type = "minus" THEN mreq[r - 1].score ELSE 0)

\* the sum of the scores of a set of log rows
RECURSIVE SumOfScores(_)
SumOfScores(logs) ==
    IF logs = {} THEN 0
    ELSE LET l == CHOOSE x \in logs : TRUE
         IN  l.score + SumOfScores(logs \ {l})

LoggedAs(id, log_type) == {l \in merit_logs : l.user_id = id /\ l.log_type = log_type}

\* C23: after awards to one student processed one at a time and all answered
\* 201, the student's plus_score is its initial value plus the scores logged
\* as merit and the minus_score its initial value plus the scores logged as
\* demerit, for every type the handler accepts.
TotalsMatchLog ==
    AwardsOneAtATime
    => \A d \in stu_details :
          d.id = mreq[1].user_id
          => /\ d.plus_score = SumOfScores(LoggedAs(d.id, "merit"))
             /\ d.minus_score = SumOfScores(LoggedAs(d.id, "demerit"))

\* ----------------------------------------------- claims: the login cookie

\* the account's email is the staff address or one of the school's
SchoolEmail(g) ==
    /\ g.email # NoEmail
    /\ g.email = StaffEmail \/ g.email.domain = SchoolDomain

\* C24: login sets the access_token cookie only when the provider answered
\* with a profile whose email is the staff address or in the school domain;
\* in every other case no cookie is set and the answer is an error envelope.
CookieOnlyForSchoolEmail ==
    last.route = "POST /api/auth/login"
    => IF last.out.cookie # NoCookie
       THEN \E g \in ProviderAnswers : g.id = last.out.cookie.claims.id /\ SchoolEmail(g)
       ELSE ~last.success /\ last.status \in {400, 403, 500}

\* --------------------------------------------- claims: the staff override

\* a teacher's request at route came to the handler, for a row of table
\* that another user wrote
ByStaffNonOwner(route, table) ==
    /\ last'.route = route
    /\ last'.handled = 1
    /\ Get(last'.user, "role") = "teacher"
    /\ \E row \in table : row.id = last'.arg.id /\ row.user_id # Get(last'.user, "id")

StaffOnAnothersRow ==
    \/ ByStaffNonOwner("PUT /api/posts/:postId", posts)
    \/ ByStaffNonOwner("DELETE /api/inquires/:postId", inquires)

\* the teacher's DELETE of another user's post, the store answering
StaffDeletesPost ==
    /\ ByStaffNonOwner("DELETE /api/posts/:postId", posts)
    /\ last'.arg.store = "ok"

PostDeleted ==
    /\ last'.status = 200
    /\ posts' = posts \ RowsById(posts, last'.arg.id)
    /\ inquires' = inquires

ScanAnswered == last'.route = "POST /api/roomcheckins" /\ now' = now

\* the answer the body of a scan that came to the handler calls for, the
\* store's failure aside
ScanStatusFor(qrData, today) ==
    IF qrData = NoQr THEN {400}
    ELSE IF ~OpensAsPayload(qrData) THEN {401}
    ELSE IF PayloadOf(qrData).type # QR_TYPE THEN {401}
    ELSE IF PayloadOf(qrData).date # today THEN {403}
    ELSE {201, 500}

\* C26: POST /api/roomcheckins inserts exactly one room_checkins row when it
\* answers 201 and only then; every other answer (400 without qrData, 401
\* for an undecodable or wrong-type payload, 403 for a stale date, 500 when
\* the store fails) leaves the table as it was.
ScanWritesOnlyOn201 ==
    [][ScanAnswered
          => /\ room_checkins \subseteq room_checkins'
             /\ Cardinality(room_checkins' \ room_checkins)
                   = (IF last'.status = 201 THEN 1 ELSE 0)
             /\ last'.handled = 1
                => last'.status \in ScanStatusFor(last'.arg.qrData, now)]_vars

\* the store refused the row of a valid scan: 500, and the table is empty
ScanStoreFailureLeftNoRow ==
    /\ ScanHandled(last)
    /\ last.status = 500
    /\ room_checkins = {}

\* ------------------------------------------------ claims: a code scanned again

\* a scan with a payload of the server's make, of the right type and dated
\* today, came to the handler in this step
ValidScan ==
    /\ ScanAnswered
    /\ last'.handled = 1
    /\ OpensAsPayload(last'.arg.qrData)
    /\ PayloadOf(last'.arg.qrData).type = QR_TYPE
    /\ PayloadOf(last'.arg.qrData).date = now

\* this step added one row, of the caller
CallersRowAppended ==
    /\ room_checkins \subseteq room_checkins'
    /\ \E row \in room_checkins' \ room_checkins :
          /\ row.user_id = last'.user.id
          /\ room_checkins' = room_checkins \cup {row}

\* C27 as stated: every scan of a valid payload dated today, by any
\* authenticated user and however often it was scanned before, is answered
\* 201 and appends another row.
EveryValidScanAccepted ==
    [][ValidScan => (last'.status = 201 /\ CallersRowAppended)]_vars

\* C27: every scan of a valid payload dated today, by any authenticated user
\* and however often it was scanned before, passes the handler's checks: it
\* is answered 201 and appends another row, unless the insert itself fails
\* in the store, which is answered 500 and adds none.
ValidScanAcceptedAgain ==
    [][ValidScan
          => \/ last'.status = 201 /\ CallersRowAppended
             \/ /\ last'.status = 500 /\ last'.code = "SERVER_ERROR"
                /\ room_checkins' = room_checkins]_vars

\* the code the staff screen shows was scanned by a student who already had
\* a row for the day, and was accepted: two rows of one user and one day
ScannedTwiceInADay ==
    /\ ScanHandled(last)
    /\ last.status = 201
    /\ qr # NoQr
    /\ last.arg.qrData = qr
    /\ \E r1, r2 \in room_checkins :
          r1.id # r2.id /\ r1.user_id = r2.user_id /\ r1.check_date = r2.check_date

\* --------------------------------------------- claims: the target Friday

Friday == 5
Saturday == Friday + 1

\* the submissions that reached the store's select in this step
Submitted == DOMAIN sreq' \ DOMAIN sreq

\* the submissions answered in this step
Written == {r \in DOMAIN sreq : sreq[r].pc = "fetched" /\ sreq'[r].pc = "done"}

StayAskedByDate ==
    /\ last.route = "GET /api/stay"
    /\ last.user # NoUser
    /\ ~Falsy(last.arg.date)

\* C29: GET /api/stay with a date D answers with a success envelope holding
\* exactly the visible rows (own rows, every row for a teacher) whose
\* select_date is D.  The date asked for is the one every stored row has.
StayListByDate ==
    StayAskedByDate =>
        /\ last.success
        /\ last.status = 200
        /\ {last.out.data[i].id : i \in DOMAIN last.out.data}
               = {r.id : r \in OwnerFilter(last.user, stay_status)}

\* ------------------------------------------ claims: deciding a leave request

\* POST /api/leave/check reached its handler in this step
LeaveDecided ==
    /\ last'.route = "POST /api/leave/check"
    /\ last'.handled # 0
    /\ now' = now

\* the row of the id asked for, before the step
LeaveAsked == RowsById(leave_requests, last'.arg.id)

\* the same row with the status the approval field decides, nothing else
\* of it touched
LeaveAsDecided(r) ==
    [r EXCEPT !.status = IF last'.arg.approval = "true" THEN 1 ELSE 2]

\* the rows of every other id are as they were
OtherLeaveRowsKept ==
    {r \in leave_requests' : r.id # last'.arg.id}
        = {r \in leave_requests : r.id # last'.arg.id}

====
